---- MODULE Spec2Model ----
(***************************************************************************)
(* csv-schema-evolution: the CSV ingestion core of the backend.            *)
(*                                                                         *)
(*   app/utils/sanitize.py            sanitize_cell_value                  *)
(*   app/services/dialect_detector.py DialectDetector                      *)
(*   app/services/csv_handler.py      _is_vertical_layout, _parse_csv_sync *)
(*   app/services/transposer.py       parse_vertical_csv                   *)
(*   app/services/file_service.py     _build_sanitized_csv                 *)
(*                                                                         *)
(* A text is a sequence of one-character strings.  A record (an            *)
(* OrderedDict) is a sequence of <<key, value>> pairs with distinct keys,  *)
(* in insertion order.                                                     *)
(***************************************************************************)
EXTENDS Integers, Sequences, FiniteSets, TLC

VARIABLES
    value,          \* sanitize_cell_value: the argument
    result,         \* sanitize_cell_value(value)
    again,          \* sanitize_cell_value(result)
    san_pc,         \* "idle" | "input" | "once" | "twice"
    content,        \* process_csv_content: the text to ingest
    id_field,       \* process_csv_content: the id_field argument
    pc,             \* how far the ingestion of content has come, or "raised"
    scores,         \* detect: what each of the 8 candidates came to
    dialect,        \* the dialect _detect_dialect returned
    is_vertical,    \* what _is_vertical_layout returned
    records,        \* the records _parse_csv_sync returns
    fields,         \* the field list _parse_csv_sync returns
    clean_csv,      \* _build_sanitized_csv(records, fields)
    input_files,    \* read_records: the rows csv.reader yields, file by file
    read_out,       \* what read_records(input_files) returned
    store,          \* MongoDB: the GridFS bucket and the "files" collection
    calls,          \* the calls in progress on the store, by caller
    now,            \* datetime.now(timezone.utc), in hours
    scheduler,      \* main.py: the AsyncIOScheduler and the application
    registry,       \* the csv module's registry of dialects, by name
    threads         \* the _parse_csv_sync calls of the thread pool

san_vars == <<value, result, again, san_pc>>

ingest_vars == <<content, id_field, pc, scores, dialect, is_vertical, records,
                 fields, clean_csv>>

cli_vars == <<input_files, read_out>>

store_vars == <<store, calls, now, scheduler>>

pool_vars == <<registry, threads>>

not_san_vars == <<ingest_vars, cli_vars, store_vars, pool_vars>>
not_ingest_vars == <<san_vars, cli_vars, store_vars, pool_vars>>
not_cli_vars == <<san_vars, ingest_vars, store_vars, pool_vars>>
not_store_vars == <<san_vars, ingest_vars, cli_vars, pool_vars>>
not_pool_vars == <<san_vars, ingest_vars, cli_vars, store_vars>>

vars == <<san_vars, ingest_vars, cli_vars, store_vars, pool_vars>>

-----------------------------------------------------------------------------
(* Bounds *)

MaxCellLen == 3         \* longest argument handed to sanitize_cell_value
MaxRawLen == 3          \* longest content drawn character by character
MaxLines == 3           \* most lines of a content drawn line by line
MaxRows == 22           \* most rows of a content of cycling keys
MaxRepeats == 8         \* most rows of such a content that repeat a key
MaxFileRows == 3        \* most rows of all the files of read_records

-----------------------------------------------------------------------------
(* Texts *)

\* Python's None (an absent value); distinct from every text.
None == <<"None">>

\* The whitespace characters str.strip() removes, among those modelled.
Whitespace == {" ", "\t", "\n", "\r"}

\* All texts over alphabet A of length at most n.
TextsUpTo(A, n) == UNION {[1..k -> A] : k \in 0..n}

RECURSIVE lstrip(_)
lstrip(s) ==
    IF s = <<>> THEN <<>>
    ELSE IF Head(s) \in Whitespace THEN lstrip(Tail(s))
    ELSE s

RECURSIVE rstrip(_)
rstrip(s) ==
    IF s = <<>> THEN <<>>
    ELSE IF s[Len(s)] \in Whitespace THEN rstrip(SubSeq(s, 1, Len(s) - 1))
    ELSE s

\* str.strip()
strip(s) == rstrip(lstrip(s))

\* str.startswith(tuple of one-character prefixes)
startswith(s, prefixes) == s # <<>> /\ Head(s) \in prefixes

-----------------------------------------------------------------------------
(* app/utils/sanitize.py *)

FormulaPrefixes == {"=", "+", "-", "@"}

\* A slip the code could have made: the prefix test runs on the raw value,
\* the strip only on the values that pass it.
sanitize_check_before_strip(v) ==
    IF v = None \/ v = <<>> THEN <<>>
    ELSE IF startswith(v, FormulaPrefixes) THEN <<"'">> \o v
    ELSE strip(v)

\* A slip the code could have made: no prefix is added at all.
sanitize_without_prefix(v) ==
    IF v = None \/ v = <<>> THEN <<>>
    ELSE strip(v)

sanitize_cell_value(v) ==
    IF v = None \/ v = <<>> THEN <<>>
    ELSE LET clean_value == strip(v)
         IN  IF startswith(clean_value, FormulaPrefixes)
             THEN <<"'">> \o clean_value
             ELSE clean_value

-----------------------------------------------------------------------------
(* csv.reader, as the services call it.  Every dialect in use has          *)
(* doublequote = True, escapechar = None, skipinitialspace = False and     *)
(* quoting = QUOTE_MINIMAL; only delimiter, quotechar and strict vary.     *)
(* The reader takes its lines from a StringIO, which ends a line after     *)
(* each "\n" and nowhere else.                                             *)

START_RECORD == "START_RECORD"
START_FIELD == "START_FIELD"
IN_FIELD == "IN_FIELD"
IN_QUOTED_FIELD == "IN_QUOTED_FIELD"
QUOTE_IN_QUOTED_FIELD == "QUOTE_IN_QUOTED_FIELD"
EAT_CRNL == "EAT_CRNL"
CSV_ERROR == "CSV_ERROR"        \* csv.Error was raised
EOL == "EOL"                    \* the end-of-line mark fed after each line

\* The parser at the start of each record.
parse_reset == [state |-> START_RECORD, field |-> <<>>, fields |-> <<>>]

\* One character (or EOL) through the reader's state machine.
parse_process_char(p, c, d, strict) ==
    LET newline == c \in {"\n", "\r"}
        save(s) == [state |-> s, field |-> <<>>,
                    fields |-> Append(p.fields, p.field)]
        add(s) == [p EXCEPT !.state = s, !.field = Append(p.field, c)]
        goto(s) == [p EXCEPT !.state = s]
        after_line == IF c = EOL THEN START_RECORD ELSE EAT_CRNL
        start_field ==
            IF newline \/ c = EOL THEN save(after_line)
            ELSE IF c = d.quotechar THEN goto(IN_QUOTED_FIELD)
            ELSE IF c = d.delimiter THEN save(START_FIELD)
            ELSE add(IN_FIELD)
    IN  CASE p.state = START_RECORD ->
                IF c = EOL THEN p
                ELSE IF newline THEN goto(EAT_CRNL)
                ELSE start_field
          [] p.state = START_FIELD -> start_field
          [] p.state = IN_FIELD ->
                IF newline \/ c = EOL THEN save(after_line)
                ELSE IF c = d.delimiter THEN save(START_FIELD)
                ELSE add(IN_FIELD)
          [] p.state = IN_QUOTED_FIELD ->
                IF c = EOL THEN p
                ELSE IF c = d.quotechar THEN goto(QUOTE_IN_QUOTED_FIELD)
                ELSE add(IN_QUOTED_FIELD)
          [] p.state = QUOTE_IN_QUOTED_FIELD ->
                IF c = d.quotechar THEN add(IN_QUOTED_FIELD)
                ELSE IF c = d.delimiter THEN save(START_FIELD)
                ELSE IF newline \/ c = EOL THEN save(after_line)
                ELSE IF ~strict THEN add(IN_FIELD)
                ELSE goto(CSV_ERROR)
          [] p.state = EAT_CRNL ->
                IF newline THEN p
                ELSE IF c = EOL THEN goto(START_RECORD)
                ELSE goto(CSV_ERROR)

\* One line through the parser: the characters of text from i up to the
\* "\n" that ends the line (or the end of text), and then EOL.
RECURSIVE line_from(_, _, _, _, _)
line_from(text, i, p, d, strict) ==
    LET p1 == parse_process_char(p, text[i], d, strict)
    IN  IF p1.state = CSV_ERROR THEN [parser |-> p1, next |-> i + 1]
        ELSE IF text[i] = "\n" \/ i = Len(text)
        THEN [parser |-> parse_process_char(p1, EOL, d, strict), next |-> i + 1]
        ELSE line_from(text, i + 1, p1, d, strict)

\* Iterating the reader to the end of text from the line at character i on:
\* the rows it yields, and whether csv.Error ended the iteration.  A record
\* ends with the line that leaves the parser in START_RECORD; at the end of
\* the input an open record is an error when strict, a last row otherwise.
RECURSIVE reader_from(_, _, _, _, _, _)
reader_from(text, i, p, rows, d, strict) ==
    IF i > Len(text)
    THEN IF p.field # <<>> \/ p.state = IN_QUOTED_FIELD
         THEN IF strict
              THEN [rows |-> rows, error |-> TRUE]
              ELSE [rows |-> Append(rows, Append(p.fields, p.field)),
                    error |-> FALSE]
         ELSE [rows |-> rows, error |-> FALSE]
    ELSE LET l == line_from(text, i, p, d, strict)
         IN  IF l.parser.state = CSV_ERROR
             THEN [rows |-> rows, error |-> TRUE]
             ELSE IF l.parser.state = START_RECORD
             THEN reader_from(text, l.next, parse_reset,
                              Append(rows, l.parser.fields), d, strict)
             ELSE reader_from(text, l.next, l.parser, rows, d, strict)

\* csv.reader(StringIO(text), ...) iterated to the end.
csv_reader(text, d, strict) ==
    reader_from(text, 1, parse_reset, <<>>, d, strict)

-----------------------------------------------------------------------------
(* Regular expressions, as far as TYPE_PATTERNS needs them.  A pattern is  *)
(* a tree of character classes, concatenations, alternatives and bounded   *)
(* or unbounded repetitions; re_ends gives the positions a match can end   *)
(* at when it starts at one of the given positions.                        *)

Digits == {"0", "1", "2", "3", "4", "5", "6", "7", "8", "9"}
Lower == {"a", "b", "c", "d", "e", "f", "g", "h", "i", "j", "k", "l", "m",
          "n", "o", "p", "q", "r", "s", "t", "u", "v", "w", "x", "y", "z"}
Upper == {"A", "B", "C", "D", "E", "F", "G", "H", "I", "J", "K", "L", "M",
          "N", "O", "P", "Q", "R", "S", "T", "U", "V", "W", "X", "Y", "Z"}
AlNum == Lower \cup Upper \cup Digits

Unbounded == -1

Cls(S) == [t |-> "cls", set |-> S, neg |-> FALSE]
NotCls(S) == [t |-> "cls", set |-> S, neg |-> TRUE]
Cat(items) == [t |-> "cat", items |-> items]
Alt(items) == [t |-> "alt", items |-> items]
Rep(item, lo, hi) == [t |-> "rep", item |-> item, min |-> lo, max |-> hi]
Opt(item) == Rep(item, 0, 1)
Plus(item) == Rep(item, 1, Unbounded)
Star(item) == Rep(item, 0, Unbounded)
Lit(s) == Cat([i \in DOMAIN s |-> Cls({s[i]})])

RECURSIVE re_ends(_, _, _)
RECURSIVE rep_ends(_, _, _, _, _)

re_ends(r, s, starts) ==
    CASE r.t = "cls" ->
            {i + 1 : i \in {j \in starts :
                              j < Len(s) /\ ((s[j + 1] \in r.set) # r.neg)}}
      [] r.t = "cat" ->
            IF r.items = <<>> THEN starts
            ELSE re_ends(Cat(Tail(r.items)), s,
                         re_ends(Head(r.items), s, starts))
      [] r.t = "alt" ->
            UNION {re_ends(r.items[k], s, starts) : k \in DOMAIN r.items}
      [] r.t = "rep" -> rep_ends(r.item, r.min, r.max, s, starts)

rep_ends(item, lo, hi, s, starts) ==
    LET less(n) == IF n = Unbounded THEN Unbounded ELSE n - 1
    IN  IF starts = {} THEN {}
        ELSE IF lo > 0
        THEN rep_ends(item, lo - 1, less(hi), s, re_ends(item, s, starts))
        ELSE IF hi = 0 THEN starts
        ELSE starts \cup
             rep_ends(item, 0, less(hi), s, re_ends(item, s, starts) \ starts)

\* regex.match(s) for a pattern written ^...$: the whole of s matches, or
\* all of it but one final newline.
re_match(r, s) ==
    LET ends == re_ends(r, s, {0})
    IN  \/ Len(s) \in ends
        \/ s # <<>> /\ s[Len(s)] = "\n" /\ (Len(s) - 1) \in ends

-----------------------------------------------------------------------------
(* app/services/dialect_detector.py *)

\* Numbers.  A score is the rational n/d (d > 0), times BETA = 1e-10 when
\* beta is set; BETA itself exceeds the integers TLC computes with, so it
\* is kept as a factor.
Num(n, d) == [n |-> n, d |-> d, beta |-> FALSE]
TimesBETA(x) == [x EXCEPT !.beta = TRUE]

RECURSIVE GCD(_, _)
GCD(a, b) == IF b = 0 THEN a ELSE GCD(b, a % b)

Reduce(n, d) == LET g == GCD(IF n < 0 THEN -n ELSE n, d)
                IN  Num(n \div g, d \div g)

NumAdd(x, y) == LET g == GCD(x.d, y.d)
                IN  Reduce(x.n * (y.d \div g) + y.n * (x.d \div g),
                           (x.d \div g) * y.d)
NumMul(x, y) == [Reduce(x.n * y.n, x.d * y.d) EXCEPT !.beta = x.beta \/ y.beta]
NumDiv(x, k) == Reduce(x.n, x.d * k)

\* x > y.  Only positive numbers are multiplied by BETA.  One of them is
\* compared with a number without the factor through
\* n/d > (n'/d') * 1e-10  <=>  n * d' * 10^10 > n' * d, and n' * d, being
\* an integer that TLC computes, is below 10^10.
NumGt(x, y) ==
    IF x.beta = y.beta
    THEN LET g == GCD(x.d, y.d)
         IN  x.n * (y.d \div g) > y.n * (x.d \div g)
    ELSE IF y.beta THEN x.n > 0 /\ y.n * x.d <= 2147483647
    ELSE x.n > 0 /\ y.n <= 0

ALPHA == Num(1, 1000)
BETA == TimesBETA(Num(1, 1))

sample_size == 8192

TYPE_PATTERNS == <<
    Star(Cls(Whitespace)),
    Cat(<<Opt(Cls({"-"})), Plus(Cls(Digits))>>),
    Cat(<<Opt(Cls({"-"})), Plus(Cls(Digits)), Cls({".", ","}),
          Plus(Cls(Digits)),
          Opt(Cat(<<Cls({"e"}), Opt(Cls({"+", "-"})), Plus(Cls(Digits))>>))>>),
    Cat(<<Alt(<<Lit(<<"h", "t", "t", "p">>), Lit(<<"h", "t", "t", "p", "s">>)>>),
          Lit(<<":", "/", "/">>),
          NotCls(Whitespace \cup {"/", "$", ".", "?", "#"}),
          NotCls({"\n"}),
          Star(NotCls(Whitespace))>>),
    Cat(<<Plus(Cls(AlNum \cup {"_", ".", "+", "-"})), Cls({"@"}),
          Plus(Cls(AlNum \cup {"-"})), Cls({"."}),
          Plus(Cls(AlNum \cup {"-", "."}))>>),
    Cat(<<Rep(Cls(Digits), 4, 4), Cls({"-"}), Rep(Cls(Digits), 2, 2),
          Cls({"-"}), Rep(Cls(Digits), 2, 2),
          Opt(Cat(<<Cls({"T", " "}), Rep(Cls(Digits), 2, 2), Cls({":"}),
                    Rep(Cls(Digits), 2, 2),
                    Opt(Cat(<<Cls({":"}), Rep(Cls(Digits), 2, 2)>>))>>))>>),
    Cat(<<Rep(Cls(Digits), 1, 2), Cls({"/", "-"}), Rep(Cls(Digits), 1, 2),
          Cls({"/", "-"}), Rep(Cls(Digits), 2, 4)>>),
    Cat(<<Cls({"N", "n"}), Opt(Cls({"/"})), Cls({"A", "a"})>>),
    Plus(Cls(AlNum \cup Whitespace \cup {"-", "_"}))
>>

\* any(regex.match(cell.strip()) for regex in TYPE_PATTERNS)
known_type(cell) ==
    LET cell_val == strip(cell)
    IN  \E k \in DOMAIN TYPE_PATTERNS : re_match(TYPE_PATTERNS[k], cell_val)

\* Outcomes of a scoring function: a number, or an exception.
Raised == [raised |-> TRUE]
Returned(x) == [raised |-> FALSE, val |-> x]

\* What a call came to is an exception that no handler of the callee caught.
propagated(r) == "raised" \in DOMAIN r /\ r.raised

_get_potential_dialects ==
    LET delimiters == <<",", ";", "\t", "|">>
        quotechars == <<"\"", "'">>
    IN  [k \in 1..8 |->
            [delimiter |-> delimiters[((k - 1) \div 2) + 1],
             quotechar |-> quotechars[((k - 1) % 2) + 1]]]

\* list(csv.reader(..., strict=True)), or [] on csv.Error
_parse_sample(sample, delimiter, quotechar) ==
    LET r == csv_reader(sample,
                        [delimiter |-> delimiter, quotechar |-> quotechar],
                        TRUE)
    IN  IF r.error THEN <<>> ELSE r.rows

\* P = (1/K) * sum over the distinct row lengths L, seen in N rows, of
\* N * max(ALPHA, L - 1) / L.  A row of no cells makes the division raise
\* ZeroDivisionError.
RECURSIVE sum_patterns(_, _)
sum_patterns(rows, lengths) ==
    IF lengths = {} THEN Num(0, 1)
    ELSE LET length == CHOOSE l \in lengths : TRUE
             count == Cardinality({i \in DOMAIN rows : Len(rows[i]) = length})
             numerator == IF NumGt(ALPHA, Num(length - 1, 1))
                          THEN ALPHA ELSE Num(length - 1, 1)
             score_k == NumDiv(numerator, length)
         IN  NumAdd(NumMul(Num(count, 1), score_k),
                    sum_patterns(rows, lengths \ {length}))

\* A slip the code could have made: the sum is multiplied by K.
_calculate_pattern_score_times_K(rows) ==
    IF rows = <<>> THEN Returned(Num(0, 1))
    ELSE LET pattern_counts == {Len(rows[i]) : i \in DOMAIN rows}
             num_patterns == Cardinality(pattern_counts)
         IN  IF 0 \in pattern_counts THEN Raised
             ELSE Returned(NumMul(Num(num_patterns, 1),
                                  sum_patterns(rows, pattern_counts)))

_calculate_pattern_score(rows) ==
    IF rows = <<>> THEN Returned(Num(0, 1))
    ELSE LET pattern_counts == {Len(rows[i]) : i \in DOMAIN rows}
             num_patterns == Cardinality(pattern_counts)
         IN  IF 0 \in pattern_counts THEN Raised
             ELSE Returned(NumDiv(sum_patterns(rows, pattern_counts),
                                  num_patterns))

RECURSIVE sum_len(_)
sum_len(rows) == IF rows = <<>> THEN 0 ELSE Len(Head(rows)) + sum_len(Tail(rows))

RECURSIVE count_known(_)
count_known(cells) ==
    IF cells = <<>> THEN 0
    ELSE (IF known_type(Head(cells)) THEN 1 ELSE 0) + count_known(Tail(cells))

RECURSIVE count_known_rows(_)
count_known_rows(rows) ==
    IF rows = <<>> THEN 0
    ELSE count_known(Head(rows)) + count_known_rows(Tail(rows))

\* T = max(BETA, matched_cells / total_cells)
_calculate_type_score(rows) ==
    LET total_cells == sum_len(rows)
        matched_cells == count_known_rows(rows)
    IN  IF total_cells = 0 THEN BETA
        ELSE LET score == Reduce(matched_cells, total_cells)
             IN  IF NumGt(BETA, score) THEN BETA ELSE score

\* One pass of the loop body of detect for candidate k: the candidate is
\* skipped for want of rows, or its scoring raises, or it gets the score
\* Q = P * T.
NO_ROWS == "no_rows"
RAISED == "raised"
SCORED == "scored"

candidate_outcome(sample, k) ==
    LET c == _get_potential_dialects[k]
        rows == _parse_sample(sample, c.delimiter, c.quotechar)
        p_score == _calculate_pattern_score(rows)
        t_score == _calculate_type_score(rows)
    IN  IF rows = <<>> THEN [status |-> NO_ROWS]
        ELSE IF p_score.raised THEN [status |-> RAISED]
        ELSE [status |-> SCORED,
              consistency_score |-> NumMul(p_score.val, t_score)]

NoDialect == [delimiter |-> "None", quotechar |-> "None"]
excel == [delimiter |-> ",", quotechar |-> "\""]

\* A slip the code could have made: a candidate without a score ends the
\* loop (break) where the code goes on to the next (continue).
RECURSIVE detect_loop_break(_, _, _, _)
detect_loop_break(outcomes, k, best_dialect, best_score) ==
    IF k > Len(outcomes) THEN best_dialect
    ELSE LET o == outcomes[k]
         IN  IF o.status # "scored" THEN best_dialect
             ELSE IF NumGt(o.consistency_score, best_score)
             THEN detect_loop_break(outcomes, k + 1,
                                    _get_potential_dialects[k],
                                    o.consistency_score)
             ELSE detect_loop_break(outcomes, k + 1, best_dialect, best_score)

RECURSIVE detect_loop(_, _, _, _)
detect_loop(outcomes, k, best_dialect, best_score) ==
    IF k > Len(outcomes) THEN best_dialect
    ELSE LET o == outcomes[k]
         IN  IF o.status = SCORED /\ NumGt(o.consistency_score, best_score)
             THEN detect_loop(outcomes, k + 1, _get_potential_dialects[k],
                              o.consistency_score)
             ELSE detect_loop(outcomes, k + 1, best_dialect, best_score)

\* What the candidates come to on the sample of content.
detect_outcomes(text) ==
    LET sample == SubSeq(text, 1, IF Len(text) < sample_size
                                  THEN Len(text) ELSE sample_size)
    IN  [k \in 1..8 |-> candidate_outcome(sample, k)]

\* DialectDetector.detect, given the outcomes of the candidates.
detect(outcomes) ==
    LET best_dialect == detect_loop(outcomes, 1, NoDialect, Num(-1, 1))
    IN  IF best_dialect = NoDialect THEN excel ELSE best_dialect

-----------------------------------------------------------------------------
(* app/services/csv_handler.py, app/services/transposer.py *)

\* detector.detect never raises here, so the fallback of _detect_dialect
\* is not taken.
_detect_dialect(outcomes) == detect(outcomes)

Prefix(s, n) == SubSeq(s, 1, IF Len(s) < n THEN Len(s) ELSE n)

NonEmpty(row) == row # <<>>

\* 1 - (unique / total) > 0.3 in IEEE double arithmetic, for total <= 20.
\* Where the ratio is not 3/10 the rounding cannot change the comparison;
\* where it is (7 of 10, 14 of 20), unique / total rounds to
\* 0.6999999999999999556, the difference to 0.3000000000000000444, and the
\* literal 0.3 to 0.2999999999999999889: the comparison is true.
duplication_exceeds(unique, total) ==
    \/ 10 * (total - unique) > 3 * total
    \/ 10 * (total - unique) = 3 * total

_is_vertical_layout(text, dia) ==
    LET r == csv_reader(Prefix(text, 4096), dia, FALSE)
        \* 20 calls of next(reader): the first 20 rows, or all of them and
        \* then StopIteration or csv.Error
        raised == Len(r.rows) < 20 /\ r.error
        sampled == SelectSeq(Prefix(r.rows, 20), NonEmpty)
        row_lengths == [i \in DOMAIN sampled |-> Len(sampled[i])]
        first_col_values == [i \in DOMAIN sampled |-> sampled[i][1]]
        unique_keys == {first_col_values[i] : i \in DOMAIN first_col_values}
    IN  IF raised THEN FALSE
        ELSE IF row_lengths = <<>> THEN FALSE
        \* avg_width > 2.5
        ELSE IF 2 * sum_len(sampled) > 5 * Len(row_lengths) THEN FALSE
        ELSE duplication_exceeds(Cardinality(unique_keys),
                                 Len(first_col_values))

\* dict: d[key] = val
dict_set(d, key, val) ==
    IF \E i \in DOMAIN d : d[i][1] = key
    THEN [i \in DOMAIN d |-> IF d[i][1] = key THEN <<key, val>> ELSE d[i]]
    ELSE Append(d, <<key, val>>)

dict_keys(d) == {d[i][1] : i \in DOMAIN d}

\* dict.get(key, default)
dict_get(d, key, default) ==
    IF key \in dict_keys(d)
    THEN (CHOOSE kv \in {d[i] : i \in DOMAIN d} : kv[1] = key)[2]
    ELSE default

\* csv.DictReader.__next__ on one non-empty row: dict(zip(fieldnames, row)),
\* then the surplus cells under restkey = None, or restval = None for the
\* fieldnames the row has no cell for.
RECURSIVE zip_into(_, _, _, _)
zip_into(d, fieldnames, row, i) ==
    IF i > Len(fieldnames) \/ i > Len(row) THEN d
    ELSE zip_into(dict_set(d, fieldnames[i], row[i]), fieldnames, row, i + 1)

RECURSIVE restval_into(_, _, _)
restval_into(d, fieldnames, i) ==
    IF i > Len(fieldnames) THEN d
    ELSE restval_into(dict_set(d, fieldnames[i], None), fieldnames, i + 1)

DictReader_next(fieldnames, row) ==
    LET d == zip_into(<<>>, fieldnames, row, 1)
        lf == Len(fieldnames)
        lr == Len(row)
    IN  IF lf < lr THEN dict_set(d, None, SubSeq(row, lf + 1, lr))
        ELSE IF lf > lr THEN restval_into(d, fieldnames, lr + 1)
        ELSE d

\* The body of "for row in reader" in _parse_csv_sync: the sanitized row.
RECURSIVE sanitize_items(_, _, _)
sanitize_items(sanitized_row, row, i) ==
    IF i > Len(row) THEN sanitized_row
    ELSE LET field == row[i][1]
             val == row[i][2]
         IN  IF field # None /\ field # <<>>
             THEN LET clean_field == strip(field)
                      raw_value == IF val # None THEN val ELSE <<>>
                      clean_value == sanitize_cell_value(raw_value)
                  IN  sanitize_items(
                          dict_set(sanitized_row, clean_field, clean_value),
                          row, i + 1)
             ELSE sanitize_items(sanitized_row, row, i + 1)

RECURSIVE horizontal_rows(_, _, _, _)
horizontal_rows(records_, fieldnames, rows, i) ==
    IF i > Len(rows) THEN records_
    ELSE IF rows[i] = <<>>
    THEN horizontal_rows(records_, fieldnames, rows, i + 1)
    ELSE LET sanitized_row ==
                 sanitize_items(<<>>, DictReader_next(fieldnames, rows[i]), 1)
         IN  horizontal_rows(IF sanitized_row # <<>>
                             THEN Append(records_, sanitized_row)
                             ELSE records_,
                             fieldnames, rows, i + 1)

\* A variant that returns nothing when csv.Error was raised.
parse_horizontal_all_or_nothing(text, dia) ==
    LET r == csv_reader(text, dia, FALSE)
    IN  IF r.rows = <<>> \/ r.error THEN [records |-> <<>>, fields |-> <<>>]
        ELSE LET fieldnames == Head(r.rows)
             IN  [records |-> horizontal_rows(<<>>, fieldnames, r.rows, 2),
                  fields |-> fieldnames]

\* _parse_csv_sync from "text_io = StringIO(content)" on.  csv.Error ends
\* the loop and what was parsed so far is returned; raised while the
\* header is read, that is nothing.
parse_horizontal(text, dia) ==
    LET r == csv_reader(text, dia, FALSE)
    IN  IF r.rows = <<>> THEN [records |-> <<>>, fields |-> <<>>]
        ELSE LET fieldnames == Head(r.rows)
             IN  [records |-> horizontal_rows(<<>>, fieldnames, r.rows, 2),
                  fields |-> fieldnames]

\* A variant of the loop that returns the completed records only.
RECURSIVE vertical_rows_completed(_, _, _, _, _)
vertical_rows_completed(rows, i, fields_, records_, current_record) ==
    IF i > Len(rows)
    THEN [records |-> records_, fields |-> fields_]
    ELSE IF rows[i] = <<>>
    THEN vertical_rows_completed(rows, i + 1, fields_, records_, current_record)
    ELSE LET row == rows[i]
             key == strip(row[1])
             val == IF Len(row) > 1 THEN strip(row[2]) ELSE <<>>
             new_record == /\ fields_ # <<>>
                           /\ key = fields_[1]
                           /\ key \in dict_keys(current_record)
             known == \E j \in DOMAIN fields_ : fields_[j] = key
         IN  vertical_rows_completed(rows, i + 1,
                 IF known THEN fields_ ELSE Append(fields_, key),
                 IF new_record THEN Append(records_, current_record)
                               ELSE records_,
                 dict_set(IF new_record THEN <<>> ELSE current_record,
                          key, val))

\* A variant of the loop that adds a new field, with an empty value, to
\* the records completed before.
RECURSIVE vertical_rows_backfill(_, _, _, _, _)
vertical_rows_backfill(rows, i, fields_, records_, current_record) ==
    IF i > Len(rows)
    THEN [records |-> IF current_record # <<>>
                      THEN Append(records_, current_record)
                      ELSE records_,
          fields |-> fields_]
    ELSE IF rows[i] = <<>>
    THEN vertical_rows_backfill(rows, i + 1, fields_, records_, current_record)
    ELSE LET row == rows[i]
             key == strip(row[1])
             val == IF Len(row) > 1 THEN strip(row[2]) ELSE <<>>
             new_record == /\ fields_ # <<>>
                           /\ key = fields_[1]
                           /\ key \in dict_keys(current_record)
             known == \E j \in DOMAIN fields_ : fields_[j] = key
             completed == IF new_record THEN Append(records_, current_record)
                                        ELSE records_
         IN  vertical_rows_backfill(rows, i + 1,
                 IF known THEN fields_ ELSE Append(fields_, key),
                 IF known THEN completed
                 ELSE [n \in DOMAIN completed |->
                          dict_set(completed[n], key, <<>>)],
                 dict_set(IF new_record THEN <<>> ELSE current_record,
                          key, val))

\* A variant of the loop that starts a new record at any key the current
\* record holds already.
RECURSIVE vertical_rows_any_repeat(_, _, _, _, _)
vertical_rows_any_repeat(rows, i, fields_, records_, current_record) ==
    IF i > Len(rows)
    THEN [records |-> IF current_record # <<>>
                      THEN Append(records_, current_record)
                      ELSE records_,
          fields |-> fields_]
    ELSE IF rows[i] = <<>>
    THEN vertical_rows_any_repeat(rows, i + 1, fields_, records_, current_record)
    ELSE LET row == rows[i]
             key == strip(row[1])
             val == IF Len(row) > 1 THEN strip(row[2]) ELSE <<>>
             new_record == fields_ # <<>> /\ key \in dict_keys(current_record)
             known == \E j \in DOMAIN fields_ : fields_[j] = key
         IN  vertical_rows_any_repeat(rows, i + 1,
                 IF known THEN fields_ ELSE Append(fields_, key),
                 IF new_record THEN Append(records_, current_record)
                               ELSE records_,
                 dict_set(IF new_record THEN <<>> ELSE current_record,
                          key, val))

\* The loop of parse_vertical_csv over the rows from i on.
RECURSIVE vertical_rows(_, _, _, _, _)
vertical_rows(rows, i, fields_, records_, current_record) ==
    IF i > Len(rows)
    THEN [records |-> IF current_record # <<>>
                      THEN Append(records_, current_record)
                      ELSE records_,
          fields |-> fields_]
    ELSE IF rows[i] = <<>>
    THEN vertical_rows(rows, i + 1, fields_, records_, current_record)
    ELSE LET row == rows[i]
             key == strip(row[1])
             val == IF Len(row) > 1 THEN strip(row[2]) ELSE <<>>
             new_record == /\ fields_ # <<>>
                           /\ key = fields_[1]
                           /\ key \in dict_keys(current_record)
             known == \E j \in DOMAIN fields_ : fields_[j] = key
         IN  vertical_rows(rows, i + 1,
                 IF known THEN fields_ ELSE Append(fields_, key),
                 IF new_record THEN Append(records_, current_record)
                               ELSE records_,
                 dict_set(IF new_record THEN <<>> ELSE current_record,
                          key, val))

\* A variant without the handler "except csv.Error".
parse_vertical_csv_uncaught(text, dia) ==
    LET r == csv_reader(text, dia, FALSE)
    IN  IF r.error THEN Raised
        ELSE vertical_rows(r.rows, 1, <<>>, <<>>, <<>>)

\* A variant that returns what it has accumulated when csv.Error is raised.
parse_vertical_csv_partial(text, dia) ==
    vertical_rows(csv_reader(text, dia, FALSE).rows, 1, <<>>, <<>>, <<>>)

parse_vertical_csv(text, dia) ==
    LET r == csv_reader(text, dia, FALSE)
    IN  IF r.error THEN [records |-> <<>>, fields |-> <<>>]
        ELSE vertical_rows(r.rows, 1, <<>>, <<>>, <<>>)

\* _parse_csv_sync after its guard "if not content" (content is not empty).
_parse_csv_sync(text, dia, vertical) ==
    IF vertical THEN parse_vertical_csv(text, dia)
    ELSE parse_horizontal(text, dia)

\* A variant that returns each distinct record once.
process_csv_content_distinct(parsed, id_field_) ==
    LET rs == parsed.records
        firsts == {i \in DOMAIN rs : \A j \in 1..(i - 1) : rs[j] # rs[i]}
        nth(k) == CHOOSE i \in firsts :
                      Cardinality({j \in firsts : j < i}) = k - 1
    IN  [records |-> [k \in 1..Cardinality(firsts) |-> rs[nth(k)]],
         fields |-> parsed.fields]

\* process_csv_content: "_ = id_field", then what _parse_csv_sync returned.
process_csv_content(parsed, id_field_) == parsed

-----------------------------------------------------------------------------
(* app/services/file_service.py *)

\* csv.DictWriter(output, fieldnames=fields): the header row, then one row
\* per record with "" for the fields it lacks; a record with a key that is
\* not a fieldname makes writerows raise ValueError.  The CSV is kept as
\* its rows of cells.
_build_sanitized_csv(records_, fields_) ==
    LET fieldnames == {fields_[i] : i \in DOMAIN fields_}
        wrong_fields == \E r \in DOMAIN records_ :
                            dict_keys(records_[r]) \ fieldnames # {}
        line(rec) == [i \in DOMAIN fields_ |-> dict_get(rec, fields_[i], <<>>)]
    IN  IF wrong_fields THEN [raised |-> TRUE, rows |-> <<>>]
        ELSE [raised |-> FALSE,
              rows |-> <<fields_>> \o
                       [r \in DOMAIN records_ |-> line(records_[r])]]

-----------------------------------------------------------------------------
(* csv_schema_evolution.py *)

\* OrderedDict((c, "") for c in fields)
blank_record(fields_) == [i \in DOMAIN fields_ |-> <<fields_[i], <<>>>>]

\* counts[field_name] += 1
count_up(counts, field_name) ==
    dict_set(counts, field_name, dict_get(counts, field_name, 0) + 1)

\* A variant of the loop that adds a new field to the current record only.
RECURSIVE read_rows_without_backfill(_, _, _)
read_rows_without_backfill(rows, i, st) ==
    IF i > Len(rows) THEN st
    ELSE IF rows[i] = <<>> THEN read_rows_without_backfill(rows, i + 1, st)
    ELSE LET row == rows[i]
             field_name == strip(row[1])
             val == IF Len(row) > 1 THEN strip(row[2]) ELSE <<>>
             new_record == /\ st.fields # <<>>
                           /\ field_name = st.fields[1]
                           /\ dict_get(st.current_record, st.fields[1], <<>>) # <<>>
             records1 == IF new_record
                         THEN Append(st.records, st.current_record)
                         ELSE st.records
             current1 == IF new_record THEN blank_record(st.fields)
                         ELSE st.current_record
             known == \E j \in DOMAIN st.fields : st.fields[j] = field_name
         IN  read_rows_without_backfill(rows, i + 1,
                 [fields |-> IF known THEN st.fields
                             ELSE Append(st.fields, field_name),
                  records |-> records1,
                  counts |-> count_up(st.counts, field_name),
                  current_record |-> dict_set(current1, field_name, val)])

\* "for row in reader" of read_records over the rows of one file.
RECURSIVE read_rows(_, _, _)
read_rows(rows, i, st) ==
    IF i > Len(rows) THEN st
    ELSE IF rows[i] = <<>> THEN read_rows(rows, i + 1, st)
    ELSE LET row == rows[i]
             field_name == strip(row[1])
             val == IF Len(row) > 1 THEN strip(row[2]) ELSE <<>>
             new_record == /\ st.fields # <<>>
                           /\ field_name = st.fields[1]
                           /\ dict_get(st.current_record, st.fields[1], <<>>) # <<>>
             records1 == IF new_record
                         THEN Append(st.records, st.current_record)
                         ELSE st.records
             current1 == IF new_record THEN blank_record(st.fields)
                         ELSE st.current_record
             known == \E j \in DOMAIN st.fields : st.fields[j] = field_name
         IN  read_rows(rows, i + 1,
                 [fields |-> IF known THEN st.fields
                             ELSE Append(st.fields, field_name),
                  records |-> IF known THEN records1
                              ELSE [n \in DOMAIN records1 |->
                                       dict_set(records1[n], field_name, <<>>)],
                  counts |-> count_up(st.counts, field_name),
                  current_record |-> dict_set(current1, field_name, val)])

\* "for file_path in input_files" of read_records from file k on.
RECURSIVE read_files(_, _, _)
read_files(files, k, st) ==
    IF k > Len(files) THEN st
    ELSE LET st1 == read_rows(files[k], 1,
                        [st EXCEPT !.current_record = blank_record(st.fields)])
             any_value == \E c \in DOMAIN st1.current_record :
                              st1.current_record[c][2] # <<>>
         IN  read_files(files, k + 1,
                 IF any_value
                 THEN [st1 EXCEPT !.records = Append(@, st1.current_record)]
                 ELSE st1)

\* read_records: return fields, records, counts
read_records(files) ==
    LET st == read_files(files, 1, [fields |-> <<>>, records |-> <<>>,
                                    counts |-> <<>>, current_record |-> <<>>])
    IN  [returned |-> TRUE,
         fields |-> st.fields, records |-> st.records, counts |-> st.counts]

-----------------------------------------------------------------------------
(* app/core/security.py, app/core/config.py *)

\* Fernet: the token of data, and the data of a token.
encrypt_data(data) == <<"fernet", data>>

decrypt_data(token) == token[2]

\* settings.max_file_size_bytes, at the scale of the texts here
max_file_size_bytes == 12

-----------------------------------------------------------------------------
(* bytes and str *)

\* The three bytes of the byte order mark, and a byte no UTF-8 text has.
BOM == <<"\\xef", "\\xbb", "\\xbf">>

HighBytes == {"\\xef", "\\xbb", "\\xbf", "\\xff"}

\* bytes.decode("utf-8"): a mark decodes to U+FEFF, any other high byte
\* raises UnicodeDecodeError.
RECURSIVE decode_utf_8(_)
decode_utf_8(bytes) ==
    IF bytes = <<>> THEN Returned(<<>>)
    ELSE IF Len(bytes) >= 3 /\ SubSeq(bytes, 1, 3) = BOM
    THEN LET rest == decode_utf_8(SubSeq(bytes, 4, Len(bytes)))
         IN  IF propagated(rest) THEN Raised
             ELSE Returned(<<"\\ufeff">> \o rest.val)
    ELSE IF bytes[1] \in HighBytes THEN Raised
    ELSE LET rest == decode_utf_8(Tail(bytes))
         IN  IF propagated(rest) THEN Raised
             ELSE Returned(<<bytes[1]>> \o rest.val)

\* bytes.decode("utf-8-sig"): utf-8 without a leading mark
decode_utf_8_sig(bytes) ==
    IF Len(bytes) >= 3 /\ SubSeq(bytes, 1, 3) = BOM
    THEN decode_utf_8(SubSeq(bytes, 4, Len(bytes)))
    ELSE decode_utf_8(bytes)

\* str.encode("utf-8")
RECURSIVE encode_utf_8(_)
encode_utf_8(text) ==
    IF text = <<>> THEN <<>>
    ELSE (IF text[1] = "\\ufeff" THEN BOM ELSE <<text[1]>>)
         \o encode_utf_8(Tail(text))

-----------------------------------------------------------------------------
(* app/repositories/file_repository.py                                     *)
(*                                                                         *)
(* The store is the GridFS bucket (the files it holds), the "files"        *)
(* collection (its documents) and the number of ObjectIds generated so     *)
(* far.  A repository function is given the store and returns the store    *)
(* it leaves, with its result in val or with raised set.                   *)

EmptyStore == [bucket |-> {}, docs |-> {}, ids |-> 0]

\* ObjectId(value) of the hexadecimal text of an id, and str(oid)
ObjectId(hex) == <<"ObjectId", hex[2]>>

str(oid) == <<"hex", oid[2]>>

\* _ensure_object_id
_ensure_object_id(v) == IF v[1] = "ObjectId" THEN v ELSE ObjectId(v)

\* save_file: the size check, then one GridFS file of the encrypted content
save_file(s, bytes, filename) ==
    IF Len(bytes) > max_file_size_bytes
    THEN [store |-> s, raised |-> TRUE, error |-> "ValueError"]
    ELSE LET oid == <<"ObjectId", s.ids + 1>>
         IN  [store |-> [s EXCEPT
                            !.bucket = @ \cup {[_id |-> oid,
                                                filename |-> filename,
                                                data |-> encrypt_data(bytes)]},
                            !.ids = @ + 1],
              raised |-> FALSE, val |-> oid]

\* "processed_"
processed_ == <<"p", "r", "o", "c", "e", "s", "s", "e", "d", "_">>

\* save_processed_file
save_processed_file(s, bytes, filename) ==
    save_file(s, bytes, processed_ \o filename)

\* create_file_metadata: insert_one(file_doc)
create_file_metadata(s, file_id, filename, utcnow) ==
    [s EXCEPT !.docs = @ \cup {[_id |-> file_id,
                                filename |-> filename,
                                raw_fs_id |-> file_id,
                                processed_fs_id |-> None,
                                status |-> "pending",
                                fields |-> <<>>,
                                records_count |-> 0,
                                error_message |-> None,
                                created_at |-> utcnow]}]

\* fs_bucket.open_download_stream(oid): the files of that id
open_download_stream(s, oid) == {f \in s.bucket : f._id = oid}

\* get_file_content_as_bytes: any failure is raised as ValueError
get_file_content_as_bytes(s, file_id) ==
    LET grid_out == open_download_stream(s, _ensure_object_id(file_id))
    IN  IF grid_out = {} THEN [raised |-> TRUE, error |-> "ValueError"]
        ELSE [raised |-> FALSE,
              val |-> decrypt_data((CHOOSE f \in grid_out : TRUE).data)]

\* get_file_content_as_string
get_file_content_as_string(s, file_id) ==
    LET decrypted_content == get_file_content_as_bytes(s, file_id)
    IN  IF decrypted_content.raised THEN decrypted_content
        ELSE LET text == decode_utf_8_sig(decrypted_content.val)
             IN  IF propagated(text)
                 THEN [raised |-> TRUE, error |-> "UnicodeDecodeError"]
                 ELSE [raised |-> FALSE, val |-> text.val]

\* An optional argument: left out, or given.
NotGiven == [given |-> FALSE]

Given(x) == [given |-> TRUE, val |-> x]

\* update_file_status: update_one({"_id": ...}, {"$set": update_data});
\* fields (an optional argument here), error_msg and processed_fs_id are
\* set when they are given.
update_file_status(s, file_id, status, fields_, count, error_msg, processed_fs_id) ==
    LET oid == ObjectId(file_id)
        set(d) == [d EXCEPT
            !.status = status,
            !.fields = IF fields_.given THEN fields_.val ELSE @,
            !.records_count = count,
            !.error_message = IF error_msg # None /\ error_msg # <<>>
                              THEN error_msg ELSE @,
            !.processed_fs_id = IF processed_fs_id # None
                                THEN _ensure_object_id(processed_fs_id)
                                ELSE @]
    IN  [s EXCEPT !.docs = {IF d._id = oid THEN set(d) ELSE d : d \in @}]

\* get_file_metadata: find_one({"_id": ...}), the documents found
get_file_metadata(s, file_id) == {d \in s.docs : d._id = ObjectId(file_id)}

\* A variant of fs_bucket.delete that leaves the file where it is.
fs_bucket_delete_nothing(s, oid) == s

\* fs_bucket.delete(oid) of a file the bucket holds
fs_bucket_delete(s, oid) == [s EXCEPT !.bucket = {f \in @ : f._id # oid}]

\* delete_file is four awaits; a call is where it stands (pc), the doc it
\* found, and at the end what it returned (val) or that it raised.
delete_file_call(file_id) ==
    [op |-> "delete_file", pc |-> "find_one", file_id |-> file_id,
     doc |-> {}, val |-> FALSE]

\* The step of delete_file that completes the await it stands at; with
\* fails the awaited operation raises.  fs_bucket.delete raises NoFile for
\* an id the bucket does not hold.
delete_file_step(s, c, fails) ==
    LET oid == ObjectId(c.file_id)
        raise == [store |-> s, call |-> [c EXCEPT !.pc = "raised"]]
        return(s1, v) ==
            [store |-> s1, call |-> [c EXCEPT !.pc = "returned", !.val = v]]
        doc == CHOOSE d \in c.doc : TRUE
        without(fs_id) == fs_bucket_delete(s, _ensure_object_id(fs_id))
        held(fs_id) == open_download_stream(s, _ensure_object_id(fs_id)) # {}
    IN  IF fails THEN raise
        ELSE CASE c.pc = "find_one" ->
                 LET found == {d \in s.docs : d._id = oid}
                 IN  IF found = {} THEN return(s, FALSE)
                     ELSE [store |-> s,
                           call |-> [c EXCEPT !.pc = "delete_one",
                                              !.doc = found]]
          [] c.pc = "delete_one" ->
                 LET deleted_count ==
                         Cardinality({d \in s.docs : d._id = oid})
                     s1 == [s EXCEPT !.docs = {d \in @ : d._id # oid}]
                 IN  IF deleted_count = 0 THEN return(s1, FALSE)
                     ELSE [store |-> s1,
                           call |-> [c EXCEPT !.pc = "delete_raw"]]
          [] c.pc = "delete_raw" ->
                 IF ~held(doc.raw_fs_id) THEN raise
                 ELSE IF doc.processed_fs_id # None
                 THEN [store |-> without(doc.raw_fs_id),
                       call |-> [c EXCEPT !.pc = "delete_processed"]]
                 ELSE return(without(doc.raw_fs_id), TRUE)
          [] c.pc = "delete_processed" ->
                 IF ~held(doc.processed_fs_id) THEN raise
                 ELSE return(without(doc.processed_fs_id), TRUE)

\* A call that has come to its end.
finished(c) == c.pc \in {"returned", "raised"}

\* delete_file run from c to its end with nothing in between; fault is the
\* await that raises, if any.
RECURSIVE delete_file_run(_, _, _)
delete_file_run(s, c, fault) ==
    IF finished(c) THEN [store |-> s, call |-> c]
    ELSE LET r == delete_file_step(s, c, c.pc = fault)
         IN  delete_file_run(r.store, r.call, fault)

\* await file_repository.delete_file(file_id)
delete_file(s, file_id, fault) ==
    delete_file_run(s, delete_file_call(file_id), fault)

-----------------------------------------------------------------------------
(* app/services/file_service.py on the store *)

\* await csv_handler.process_csv_content(content, id_field), the call as a
\* whole: what it returns, or Raised.
awaited_process_csv_content(text, id_field_) ==
    IF text = <<>>
    THEN process_csv_content([records |-> <<>>, fields |-> <<>>], id_field_)
    ELSE LET parsed_as(dia) ==
                 process_csv_content(
                     _parse_csv_sync(text, dia, _is_vertical_layout(text, dia)),
                     id_field_)
         IN  parsed_as(_detect_dialect(detect_outcomes(text)))

\* csv.writer: a cell with the delimiter, the quote character or a line
\* break in it is quoted, with its quote characters doubled.
RECURSIVE doubled(_)
doubled(cell) ==
    IF cell = <<>> THEN <<>>
    ELSE (IF cell[1] = "\"" THEN <<"\"", "\"">> ELSE <<cell[1]>>)
         \o doubled(Tail(cell))

written_cell(cell) ==
    IF \E i \in DOMAIN cell : cell[i] \in {",", "\"", "\r", "\n"}
    THEN <<"\"">> \o doubled(cell) \o <<"\"">>
    ELSE cell

RECURSIVE written_cells(_)
written_cells(row) ==
    IF row = <<>> THEN <<>>
    ELSE IF Len(row) = 1 THEN written_cell(row[1])
    ELSE written_cell(row[1]) \o <<",">> \o written_cells(Tail(row))

\* writer.writerow(row): a row of one empty cell is written as "".
writerow(row) ==
    (IF row = << <<>> >> THEN <<"\"", "\"">> ELSE written_cells(row))
    \o <<"\r", "\n">>

\* output.getvalue() of the rows written
RECURSIVE getvalue(_)
getvalue(rows) ==
    IF rows = <<>> THEN <<>> ELSE writerow(rows[1]) \o getvalue(Tail(rows))

\* The name ends with ".csv" in lower case.
lower(ch) == IF ch = "C" THEN "c" ELSE IF ch = "S" THEN "s"
             ELSE IF ch = "V" THEN "v" ELSE IF ch = "A" THEN "a" ELSE ch

endswith_csv(filename) ==
    /\ Len(filename) >= 4
    /\ [i \in 1..4 |-> lower(filename[Len(filename) - 4 + i])]
           = <<".", "c", "s", "v">>

\* A save_upload call: where it stands, its arguments and locals, the
\* exception on its way to a handler, and whether the handler came to set
\* the status.
save_upload_call(filename, bytes) ==
    [op |-> "save_upload", pc |-> "start", filename |-> filename,
     content |-> bytes, file_id |-> None, records |-> <<>>, fields |-> <<>>,
     clean_csv_content |-> <<>>, processed_file_id |-> None,
     error |-> "", handled |-> FALSE, val |-> None]

\* A variant of the handlers that only re-raises.
on_error_reraise(s, c) == s

\* The two handlers of save_upload: "if file_id:" the status is set to
\* "error", with str(e) or with "Internal Processing Error".
on_error(s, c) ==
    IF c.file_id = None THEN s
    ELSE update_file_status(s, str(c.file_id), "error", NotGiven, 0,
                            IF c.error = "ValueError"
                            THEN <<"str(e)">>
                            ELSE <<"Internal Processing Error">>,
                            None)

\* The step of save_upload that completes the await it stands at; with
\* fails the awaited repository operation raises an exception that is not
\* a ValueError.  utcnow is datetime.now(timezone.utc).
save_upload_step(s, c, fails, utcnow) ==
    LET raise(error) ==
            [store |-> s, call |-> [c EXCEPT !.pc = "except", !.error = error]]
        goes(s1, c1) == [store |-> s1, call |-> c1]
    IN  CASE c.pc = "start" ->
                 IF c.filename = <<>> \/ ~endswith_csv(c.filename)
                 THEN goes(s, [c EXCEPT !.pc = "raised",
                                        !.error = "ValueError"])
                 ELSE goes(s, [c EXCEPT !.pc = "save_file"])
          [] c.pc = "save_file" ->
                 LET r == save_file(s, c.content, c.filename)
                 IN  IF fails THEN raise("Exception")
                     ELSE IF r.raised THEN raise(r.error)
                     ELSE goes(r.store,
                               [c EXCEPT !.pc = "create_file_metadata",
                                         !.file_id = r.val])
          [] c.pc = "create_file_metadata" ->
                 IF fails THEN raise("Exception")
                 ELSE goes(create_file_metadata(s, c.file_id, c.filename,
                                                utcnow),
                           [c EXCEPT !.pc = "process_csv_content"])
          [] c.pc = "process_csv_content" ->
                 LET content_str == decode_utf_8_sig(c.content)
                     sanitized(r, built) ==
                         IF propagated(r) THEN raise("Exception")
                         ELSE IF built.raised THEN raise("ValueError")
                         ELSE goes(s, [c EXCEPT
                                  !.pc = "save_processed_file",
                                  !.records = r.records,
                                  !.fields = r.fields,
                                  !.clean_csv_content = getvalue(built.rows)])
                     processed(r) ==
                         sanitized(r, _build_sanitized_csv(r.records, r.fields))
                 IN  IF propagated(content_str) THEN raise("ValueError")
                     ELSE processed(awaited_process_csv_content(
                                        content_str.val, None))
          [] c.pc = "save_processed_file" ->
                 LET r == save_processed_file(
                              s, encode_utf_8(c.clean_csv_content), c.filename)
                 IN  IF fails THEN raise("Exception")
                     ELSE IF r.raised THEN raise(r.error)
                     ELSE goes(r.store,
                               [c EXCEPT !.pc = "update_file_status",
                                         !.processed_file_id = r.val])
          [] c.pc = "update_file_status" ->
                 IF fails THEN raise("Exception")
                 ELSE goes(update_file_status(s, str(c.file_id), "processed",
                                              Given(c.fields),
                                              Len(c.records), None,
                                              c.processed_file_id),
                           [c EXCEPT !.pc = "returned",
                                     !.val = [id |-> str(c.file_id),
                                              filename |-> c.filename,
                                              status |-> "processed",
                                              records_count |-> Len(c.records),
                                              fields |-> c.fields]])
          [] c.pc = "except" ->
                 IF c.file_id # None /\ fails
                 THEN goes(s, [c EXCEPT !.pc = "raised",
                                        !.error = "Exception"])
                 ELSE goes(on_error(s, c),
                           [c EXCEPT !.pc = "raised",
                                     !.handled = c.file_id # None])

\* A download_processed_file call.
download_processed_file_call(file_id) ==
    [op |-> "download_processed_file", pc |-> "get_file_metadata",
     file_id |-> file_id, doc |-> {}, raw_content |-> <<>>,
     records |-> <<>>, fields |-> <<>>, processed_bytes |-> <<>>,
     processed_file_id |-> None, error |-> "", val |-> None]

\* The step of download_processed_file that completes the await it stands
\* at.
download_processed_file_step(s, c) ==
    LET raise(error) ==
            [store |-> s, call |-> [c EXCEPT !.pc = "raised", !.error = error]]
        goes(s1, c1) == [store |-> s1, call |-> c1]
        doc == CHOOSE d \in c.doc : TRUE
    IN  CASE c.pc = "get_file_metadata" ->
                 LET found == get_file_metadata(s, c.file_id)
                 IN  IF found = {} THEN raise("FileNotFoundError")
                     ELSE goes(s, [c EXCEPT
                              !.doc = found,
                              !.pc = IF \E d \in found :
                                            d.processed_fs_id # None
                                     THEN "get_file_content_as_bytes"
                                     ELSE "get_file_content_as_string"])
          [] c.pc = "get_file_content_as_bytes" ->
                 LET r == get_file_content_as_bytes(s, doc.processed_fs_id)
                 IN  IF r.raised THEN raise(r.error)
                     ELSE goes(s, [c EXCEPT
                              !.pc = "returned",
                              !.val = <<r.val, doc.filename>>])
          [] c.pc = "get_file_content_as_string" ->
                 LET r == get_file_content_as_string(s, c.file_id)
                 IN  IF r.raised THEN raise(r.error)
                     ELSE goes(s, [c EXCEPT !.pc = "process_csv_content",
                                            !.raw_content = r.val])
          [] c.pc = "process_csv_content" ->
                 LET sanitized(r, built) ==
                         IF propagated(r) THEN raise("Exception")
                         ELSE IF built.raised THEN raise("ValueError")
                         ELSE goes(s, [c EXCEPT
                                  !.pc = "save_processed_file",
                                  !.records = r.records,
                                  !.fields = r.fields,
                                  !.processed_bytes =
                                      encode_utf_8(getvalue(built.rows))])
                     processed(r) ==
                         sanitized(r, _build_sanitized_csv(r.records, r.fields))
                 IN  processed(awaited_process_csv_content(c.raw_content,
                                                           None))
          [] c.pc = "save_processed_file" ->
                 LET r == save_processed_file(s, c.processed_bytes,
                                              doc.filename)
                 IN  IF r.raised THEN raise(r.error)
                     ELSE goes(r.store,
                               [c EXCEPT !.pc = "update_file_status",
                                         !.processed_file_id = r.val])
          [] c.pc = "update_file_status" ->
                 goes(update_file_status(s, c.file_id, "processed",
                                         Given(c.fields),
                                         Len(c.records), None,
                                         c.processed_file_id),
                      [c EXCEPT !.pc = "returned",
                                !.val = <<c.processed_bytes, doc.filename>>])

-----------------------------------------------------------------------------
(* app/services/cleanup.py *)

RETENTION_PERIOD_HOURS == 24

\* A delete_expired_files run: the documents its cursor has still to
\* yield, and the delete_file calls it made so far (log).
delete_expired_files_call ==
    [op |-> "delete_expired_files", pc |-> "find", cursor |-> {},
     deleted_count |-> 0, log |-> <<>>, logged |-> ""]

\* find({"created_at": {"$lt": cutoff_time}})
delete_expired_files_find(s, c, fails, utcnow) ==
    LET cutoff_time == utcnow - RETENTION_PERIOD_HOURS
    IN  IF fails
        THEN [store |-> s,
              call |-> [c EXCEPT !.pc = "returned",
                                 !.logged = "Error during scheduled cleanup"]]
        ELSE [store |-> s,
              call |-> [c EXCEPT
                  !.pc = "for",
                  !.cursor = {d \in s.docs : d.created_at < cutoff_time}]]

\* A variant of the round that gives up at the first delete_file that
\* raises.
delete_expired_files_for_first_failure(s, c, doc, fault) ==
    LET r == delete_file(s, str(doc._id), fault)
        raised == r.call.pc = "raised"
    IN  [store |-> r.store,
         call |-> [c EXCEPT
             !.cursor = IF raised THEN {} ELSE @ \ {doc},
             !.deleted_count = IF raised THEN @ ELSE @ + 1,
             !.log = Append(@, [doc |-> doc, raised |-> raised])]]

\* One round of "async for doc in cursor" with doc the document yielded:
\* delete_file, in which the await named fault raises, counted when it
\* returns and logged when it raises.
delete_expired_files_for(s, c, doc, fault) ==
    LET file_id == str(doc._id)
        r == delete_file(s, file_id, fault)
        raised == r.call.pc = "raised"
    IN  [store |-> r.store,
         call |-> [c EXCEPT
             !.cursor = @ \ {doc},
             !.deleted_count = IF raised THEN @ ELSE @ + 1,
             !.log = Append(@, [doc |-> doc, raised |-> raised])]]

\* The cursor is exhausted: the count is logged (the last message of the
\* run is kept in logged) and the task returns.
delete_expired_files_end(c) ==
    [c EXCEPT !.pc = "returned",
              !.logged = IF c.deleted_count > 0
                         THEN "Cleanup complete. Removed"
                         ELSE "Cleanup complete. No expired files found."]

-----------------------------------------------------------------------------
(* app/main.py *)

\* The names main.py binds at module level: its imports (the import of
\* delete_expired_files is a comment), scheduler, lifespan and app.
main_globals ==
    {"asynccontextmanager", "FastAPI", "CORSMiddleware", "AsyncIOScheduler",
     "IntervalTrigger", "settings", "db_manager", "files", "health",
     "RequestLogMiddleware", "scheduler", "lifespan", "app"}

\* scheduler = AsyncIOScheduler(), before the application starts
NewScheduler == [app |-> "created", running |-> FALSE, jobs |-> {}]

\* lifespan, up to its yield.  A job is due minutes after it is added.
lifespan_startup(sch, utcnow) ==
    IF "delete_expired_files" \in main_globals
    THEN [app |-> "running", running |-> TRUE,
          jobs |-> {j \in sch.jobs : j.id # "lgpd_cleanup_job"}
                   \cup {[id |-> "lgpd_cleanup_job",
                          func |-> "delete_expired_files",
                          minutes |-> 60,
                          next_run_time |-> utcnow + 1]}]
    ELSE [sch EXCEPT !.app = "running"]

\* lifespan, after its yield: scheduler.shutdown(), then
\* db_manager.close() unless the shutdown raises, as it may for a
\* scheduler that was not started.
lifespan_shutdown(sch, raises) ==
    IF sch.running THEN [sch EXCEPT !.app = "closed", !.running = FALSE]
    ELSE IF raises THEN [sch EXCEPT !.app = "raised"]
    ELSE [sch EXCEPT !.app = "closed"]

\* No call on the store, and the application not started.
StoreIdle ==
    /\ store = EmptyStore
    /\ calls = <<>>
    /\ now = 0
    /\ scheduler = NewScheduler

-----------------------------------------------------------------------------
(* The csv module's dialect registry, and _parse_csv_sync as the steps of  *)
(* a thread of the pool                                                    *)

\* ord(ch) of the delimiters and quote characters of the candidates
ord(ch) == CASE ch = "," -> 44 [] ch = ";" -> 59 [] ch = "\t" -> 9
             [] ch = "|" -> 124 [] ch = "\"" -> 34 [] ch = "'" -> 39

\* A variant that gives every detected dialect one name.
dialect_name_shared(best_dialect) == <<"auto">>

\* f"auto_{ord(best_dialect[0])}_{ord(best_dialect[1])}", as its parts
dialect_name(best_dialect) ==
    <<"auto", ord(best_dialect.delimiter), ord(best_dialect.quotechar)>>

\* The registry when the csv module is imported ("excel-tab" and "unix"
\* are in it as well; nothing here asks for them).
builtin_dialects == [name \in {<<"excel">>} |-> excel]

\* csv.register_dialect(name, delimiter=..., quotechar=...): the name is
\* bound to a new dialect, whether it was bound or not.
register_dialect(reg, name, delimiter_, quotechar_) ==
    [n \in DOMAIN reg \cup {name} |->
        IF n = name THEN [delimiter |-> delimiter_, quotechar |-> quotechar_]
        ELSE reg[n]]

\* csv.get_dialect(name): csv.Error for a name that is not bound
get_dialect(reg, name) ==
    IF name \in DOMAIN reg THEN Returned(reg[name]) ELSE Raised

\* A _parse_csv_sync(content) call in a thread of the pool.
thread_call(text) ==
    [content |-> text, pc |-> "start", best_dialect |-> NoDialect,
     dialect |-> NoDialect, records |-> <<>>, fields |-> <<>>]

\* The step of _parse_csv_sync from one access to the registry to the
\* next: the loop of detect, register_dialect, get_dialect (excel when it
\* raises, in _detect_dialect), and the parse with the dialect obtained.
thread_step(reg, t) ==
    CASE t.pc = "start" ->
             IF t.content = <<>>
             THEN [registry |-> reg, thread |-> [t EXCEPT !.pc = "returned"]]
             ELSE LET detected(best) ==
                          [registry |-> reg,
                           thread |-> [t EXCEPT
                               !.best_dialect = best,
                               !.pc = IF best = NoDialect THEN "get_dialect"
                                      ELSE "register_dialect"]]
                  IN  detected(detect_loop(detect_outcomes(t.content), 1,
                                           NoDialect, Num(-1, 1)))
      [] t.pc = "register_dialect" ->
             [registry |-> register_dialect(reg, dialect_name(t.best_dialect),
                                            t.best_dialect.delimiter,
                                            t.best_dialect.quotechar),
              thread |-> [t EXCEPT !.pc = "get_dialect"]]
      [] t.pc = "get_dialect" ->
             LET got == get_dialect(reg, IF t.best_dialect = NoDialect
                                         THEN <<"excel">>
                                         ELSE dialect_name(t.best_dialect))
             IN  [registry |-> reg,
                  thread |-> [t EXCEPT
                      !.dialect = IF propagated(got)
                                  THEN get_dialect(reg, <<"excel">>).val
                                  ELSE got.val,
                      !.pc = "parse"]]
      [] t.pc = "parse" ->
             LET parsed(r) ==
                     [registry |-> reg,
                      thread |-> IF propagated(r)
                                 THEN [t EXCEPT !.pc = "raised"]
                                 ELSE [t EXCEPT !.pc = "returned",
                                                !.records = r.records,
                                                !.fields = r.fields]]
             IN  parsed(_parse_csv_sync(
                            t.content, t.dialect,
                            _is_vertical_layout(t.content, t.dialect)))

\* No thread of the pool is running.
PoolIdle ==
    /\ registry = builtin_dialects
    /\ threads = <<>>

-----------------------------------------------------------------------------
(* Specification of the sanitizer: every argument, one and two passes.     *)

CellAlphabet == {"a", " ", "\t", "=", "+", "-", "@", "'"}

SanInputs == TextsUpTo(CellAlphabet, MaxCellLen) \cup {None}

SanIdle ==
    /\ value = None
    /\ result = None
    /\ again = None
    /\ san_pc = "idle"

IngestIdle ==
    /\ content = <<>>
    /\ id_field = None
    /\ pc = "idle"
    /\ scores = <<>>
    /\ dialect = NoDialect
    /\ is_vertical = FALSE
    /\ records = <<>>
    /\ fields = <<>>
    /\ clean_csv = None

\* read_records has not returned.
NotRead == [returned |-> FALSE]

CliIdle ==
    /\ input_files = <<>>
    /\ read_out = NotRead

SanInit ==
    /\ value \in SanInputs
    /\ result = None
    /\ again = None
    /\ san_pc = "input"
    /\ IngestIdle
    /\ CliIdle
    /\ StoreIdle
    /\ PoolIdle

Sanitize ==
    /\ san_pc = "input"
    /\ result' = sanitize_cell_value(value)
    /\ san_pc' = "once"
    /\ UNCHANGED <<value, again>>
    /\ UNCHANGED not_san_vars

SanitizeAgain ==
    /\ san_pc = "once"
    /\ again' = sanitize_cell_value(result)
    /\ san_pc' = "twice"
    /\ UNCHANGED <<value, result>>
    /\ UNCHANGED not_san_vars

SanNext == Sanitize \/ SanitizeAgain

SpecSanitize == SanInit /\ [][SanNext]_vars

-----------------------------------------------------------------------------
(* Specification of the ingestion: _parse_csv_sync on every content, then  *)
(* _build_sanitized_csv on what it returned.                               *)

RECURSIVE join_lines(_)
join_lines(lines) ==
    IF lines = <<>> THEN <<>>
    ELSE IF Len(lines) = 1 THEN lines[1]
    ELSE lines[1] \o <<"\n">> \o join_lines(Tail(lines))

RawAlphabet == {"a", ",", ";", "\"", "'", "\n", "\r", " ", "="}

LineSet == {
    <<"a">>,
    <<" ", "a">>,
    <<>>,
    <<"a", ",", "b">>,
    <<"a", ",", "=">>,
    <<"a", ",", "a">>,
    <<"b", ",", " ", "a">>,
    <<",", "a">>,
    <<"a", ",", "b", ",", "c">>,
    <<"a", "\r", "b">>
}

Letters == <<"a", "b", "c", "d", "e", "f", "g", "h", "i", "j", "k", "l", "m",
             "n", "o", "p", "q", "r", "s", "t", "u", "v", "w", "x", "y", "z">>

\* n rows "key,1" whose keys cycle through the first u letters.
key_cycle(n, u) ==
    join_lines([i \in 1..n |-> <<Letters[((i - 1) % u) + 1], ",", "1">>])

RawTexts == TextsUpTo(RawAlphabet, MaxRawLen)

LineTexts == {join_lines(ls) : ls \in UNION {[1..k -> LineSet] : k \in 1..MaxLines}}

\* Up to MaxRows rows of which up to MaxRepeats repeat an earlier key.
CycleTexts ==
    UNION {{key_cycle(n, n - k) : k \in 0..(IF n - 1 < MaxRepeats
                                            THEN n - 1 ELSE MaxRepeats)}
           : n \in 1..MaxRows}

\* The same rows followed by a line with a bare carriage return in it.
BrokenTexts == {t \o <<"\n", "a", "\r", "b">> : t \in CycleTexts}

Contents == RawTexts \cup LineTexts \cup CycleTexts \cup BrokenTexts

Init ==
    /\ content \in Contents
    /\ id_field = None          \* id_field: Optional[str] = None
    /\ pc = "start"
    /\ scores = <<>>
    /\ dialect = NoDialect
    /\ is_vertical = FALSE
    /\ records = <<>>
    /\ fields = <<>>
    /\ clean_csv = None
    /\ SanIdle
    /\ CliIdle
    /\ StoreIdle
    /\ PoolIdle

\* if not content: return [], []
EmptyContent ==
    /\ pc = "start"
    /\ content = <<>>
    /\ records' = <<>>
    /\ fields' = <<>>
    /\ pc' = "returned"
    /\ UNCHANGED <<content, id_field, scores, dialect, is_vertical, clean_csv>>
    /\ UNCHANGED not_ingest_vars

\* dialect = _detect_dialect(content)
DetectDialect ==
    /\ pc = "start"
    /\ content # <<>>
    /\ scores' = detect_outcomes(content)
    /\ dialect' = _detect_dialect(scores')
    /\ pc' = "detected"
    /\ UNCHANGED <<content, id_field, is_vertical, records, fields, clean_csv>>
    /\ UNCHANGED not_ingest_vars

\* _is_vertical_layout(content, dialect)
ClassifyLayout ==
    /\ pc = "detected"
    /\ is_vertical' = _is_vertical_layout(content, dialect)
    /\ pc' = "classified"
    /\ UNCHANGED <<content, id_field, scores, dialect, records, fields, clean_csv>>
    /\ UNCHANGED not_ingest_vars

\* return parse_vertical_csv(content, dialect), which process_csv_content
\* returns in turn
ParseVertical ==
    /\ pc = "classified"
    /\ is_vertical
    /\ LET r == process_csv_content(
                    _parse_csv_sync(content, dialect, TRUE), id_field)
       IN  IF propagated(r)
           THEN /\ pc' = "raised"
                /\ UNCHANGED <<records, fields>>
           ELSE /\ pc' = "returned"
                /\ records' = r.records
                /\ fields' = r.fields
    /\ UNCHANGED <<content, id_field, scores, dialect, is_vertical, clean_csv>>
    /\ UNCHANGED not_ingest_vars

\* the DictReader loop; return records, ordered_fields, which
\* process_csv_content returns in turn
ParseHorizontal ==
    /\ pc = "classified"
    /\ ~is_vertical
    /\ LET r == process_csv_content(
                    _parse_csv_sync(content, dialect, FALSE), id_field)
       IN  IF propagated(r)
           THEN /\ pc' = "raised"
                /\ UNCHANGED <<records, fields>>
           ELSE /\ pc' = "returned"
                /\ records' = r.records
                /\ fields' = r.fields
    /\ UNCHANGED <<content, id_field, scores, dialect, is_vertical, clean_csv>>
    /\ UNCHANGED not_ingest_vars

\* clean_csv_content = _build_sanitized_csv(records, fields)
BuildSanitizedCsv ==
    /\ pc = "returned"
    /\ clean_csv' = _build_sanitized_csv(records, fields)
    /\ pc' = "built"
    /\ UNCHANGED <<content, id_field, scores, dialect, is_vertical, records, fields>>
    /\ UNCHANGED not_ingest_vars

Next ==
    \/ EmptyContent
    \/ DetectDialect
    \/ ClassifyLayout
    \/ ParseVertical
    \/ ParseHorizontal
    \/ BuildSanitizedCsv

Spec == Init /\ [][Next]_vars

-----------------------------------------------------------------------------
(* Specification of process_csv_content called with an id_field.           *)

IdFields == {None, <<" ">>, <<"a">>}

GroupLineSet == {
    <<"a">>,
    <<"a", ",", "b">>,
    <<"a", ",", "=">>,
    <<"b", ",", " ", "a">>,
    <<",", "a">>
}

GroupTexts ==
    {join_lines(ls) : ls \in UNION {[1..k -> GroupLineSet] : k \in 1..MaxLines}}

GroupInit ==
    /\ content \in GroupTexts
    /\ id_field \in IdFields
    /\ pc = "start"
    /\ scores = <<>>
    /\ dialect = NoDialect
    /\ is_vertical = FALSE
    /\ records = <<>>
    /\ fields = <<>>
    /\ clean_csv = None
    /\ SanIdle
    /\ CliIdle
    /\ StoreIdle
    /\ PoolIdle

\* await run_in_threadpool(_parse_csv_sync, content), the call as a whole
ProcessCsvContent ==
    /\ pc = "start"
    /\ IF content = <<>>
       THEN /\ scores' = scores
            /\ dialect' = dialect
            /\ is_vertical' = is_vertical
            /\ records' = process_csv_content(
                              [records |-> <<>>, fields |-> <<>>],
                              id_field).records
            /\ fields' = <<>>
       ELSE /\ scores' = detect_outcomes(content)
            /\ dialect' = _detect_dialect(scores')
            /\ is_vertical' = _is_vertical_layout(content, dialect')
            /\ LET r == process_csv_content(
                            _parse_csv_sync(content, dialect', is_vertical'),
                            id_field)
               IN  IF propagated(r)
                   THEN UNCHANGED <<records, fields>>
                   ELSE /\ records' = r.records
                        /\ fields' = r.fields
    /\ pc' = IF content # <<>> /\ propagated(process_csv_content(
                     _parse_csv_sync(content, dialect', is_vertical'),
                     id_field))
             THEN "raised" ELSE "returned"
    /\ UNCHANGED <<content, id_field, clean_csv>>
    /\ UNCHANGED not_ingest_vars

GroupNext == ProcessCsvContent

SpecGroup == GroupInit /\ [][GroupNext]_vars

-----------------------------------------------------------------------------
(* Specification of the standalone transposer: read_records on the rows of *)
(* every sequence of files.                                                *)

FileRowSet == {
    <<>>,
    << <<"a">>, <<"1">> >>,
    << <<"a">> >>,
    << <<"b">>, <<"1">> >>,
    << <<" ", "c">>, <<" ">> >>
}

\* The files that rows make when a new file starts after the rows in cuts.
RECURSIVE split_files(_, _, _)
split_files(rows, cuts, i) ==
    IF i > Len(rows) THEN << <<>> >>
    ELSE LET rest == split_files(rows, cuts, i + 1)
         IN  IF i \in cuts
             THEN << <<rows[i]>> >> \o rest
             ELSE << <<rows[i]>> \o Head(rest) >> \o Tail(rest)

InputFiles ==
    UNION {{split_files(rows, cuts, 1) : rows \in [1..n -> FileRowSet],
                                         cuts \in SUBSET (1..n)}
           : n \in 0..MaxFileRows}

CliInit ==
    /\ input_files \in InputFiles
    /\ read_out = NotRead
    /\ SanIdle
    /\ IngestIdle
    /\ StoreIdle
    /\ PoolIdle

\* fields, records, counts = read_records(input_files)
ReadRecords ==
    /\ ~read_out.returned
    /\ read_out' = read_records(input_files)
    /\ UNCHANGED input_files
    /\ UNCHANGED not_cli_vars

CliNext == ReadRecords

SpecCli == CliInit /\ [][CliNext]_vars

-----------------------------------------------------------------------------
(* Specifications of the store: uploads, deletions, downloads, the cleanup *)
(* task and the application's lifespan.                                    *)

MaxFiles == 2

MaxHours == 27

\* file.filename
Filenames == {
    <<"a", ".", "c", "s", "v">>,
    <<"A", ".", "C", "S", "V">>,
    <<"a", ".", "t", "x", "t">>,
    <<>>
}

\* What is uploaded: nothing, a table, a table after a byte order mark, a
\* header with a padded name, bytes that are no UTF-8 text, a column whose
\* sanitized CSV is larger than the size limit, and a file larger than it.
UploadContents == {
    <<>>,
    <<"a", ",", "b", "\n", "1", ",", "2">>,
    BOM \o <<"a", "\n", "=">>,
    <<"a", ",", " ", "b", "\n", "1", ",", "2">>,
    <<"a", "\n", "\\xff">>,
    <<"a", "\n", "1", "\n", "2", "\n", "3", "\n", "4">>,
    <<"a", ",", "b", "\n", "1", ",", "2", "\n", "3", ",", "4", "\n", "5">>
}

\* save_upload run from c to its end with nothing in between; fault is the
\* await that raises, if any.
RECURSIVE save_upload_run(_, _, _, _)
save_upload_run(s, c, fault, utcnow) ==
    IF finished(c) THEN [store |-> s, call |-> c]
    ELSE LET goes_on(r) == save_upload_run(r.store, r.call, fault, utcnow)
         IN  goes_on(save_upload_step(s, c, c.pc = fault, utcnow))

\* The store after the uploads ups[k..], each one [created_at, fault]: a
\* table uploaded at that hour, processed or left with its raw file only
\* because saving the processed file failed.
RECURSIVE uploaded(_, _, _)
uploaded(s, ups, k) ==
    IF k > Len(ups) THEN s
    ELSE uploaded(save_upload_run(
                      s,
                      save_upload_call(<<"a", ".", "c", "s", "v">>,
                                       <<"a", ",", "b", "\n", "1", ",", "2">>),
                      ups[k].fault, ups[k].created_at).store,
                  ups, k + 1)

UploadHours == 0..2

\* The stores that up to MaxFiles uploads leave.
Stores ==
    UNION {{uploaded(EmptyStore, ups, 1) :
                ups \in [1..n -> [created_at : UploadHours,
                                  fault : {"none", "save_processed_file"}]]}
           : n \in 0..MaxFiles}

\* The texts of the ids the store has generated.
IdsOf(s) == {str(<<"ObjectId", n>>) : n \in 1..s.ids}

\* SpecUpload: one save_upload call, any await of which may fail

UploadInit ==
    /\ store = EmptyStore
    /\ calls \in {[upload |-> save_upload_call(filename, bytes)] :
                      filename \in Filenames, bytes \in UploadContents}
    /\ now = 0
    /\ scheduler = NewScheduler
    /\ SanIdle
    /\ IngestIdle
    /\ CliIdle
    /\ PoolIdle

\* save_upload goes on to its next await, or to its end.
SaveUploadStep ==
    /\ \E p \in DOMAIN calls : \E fails \in BOOLEAN :
           /\ calls[p].op = "save_upload"
           /\ ~finished(calls[p])
           /\ \E r \in {save_upload_step(store, calls[p], fails, now)} :
                  /\ store' = r.store
                  /\ calls' = [calls EXCEPT ![p] = r.call]
    /\ UNCHANGED <<now, scheduler>>
    /\ UNCHANGED not_store_vars

UploadNext == SaveUploadStep

SpecUpload == UploadInit /\ [][UploadNext]_vars

\* SpecDelete: delete_file(file_id), and again once it has ended

NotCalled(file_id) == [delete_file_call(file_id) EXCEPT !.pc = "not called"]

\* The store as it was when the first call was made.
Before(s) == [op |-> "before", pc |-> "returned", store |-> s]

DeleteInit ==
    /\ store \in Stores
    /\ calls \in {[first |-> delete_file_call(file_id),
                   second |-> NotCalled(file_id),
                   before |-> Before(store)] :
                      file_id \in IdsOf(store) \cup {str(<<"ObjectId", 9>>)}}
    /\ now = 2
    /\ scheduler = NewScheduler
    /\ SanIdle
    /\ IngestIdle
    /\ CliIdle
    /\ PoolIdle

\* delete_file goes on to its next await, or to its end.
DeleteFileStep ==
    /\ \E p \in DOMAIN calls :
           /\ calls[p].op = "delete_file"
           /\ calls[p].pc # "not called"
           /\ ~finished(calls[p])
           /\ \E r \in {delete_file_step(store, calls[p], FALSE)} :
                  /\ store' = r.store
                  /\ calls' = [calls EXCEPT ![p] = r.call]
    /\ UNCHANGED <<now, scheduler>>
    /\ UNCHANGED not_store_vars

\* The second delete_file of the same id is called.
DeleteFileAgain ==
    /\ finished(calls.first)
    /\ calls.second.pc = "not called"
    /\ calls' = [calls EXCEPT !.second.pc = "find_one"]
    /\ UNCHANGED <<store, now, scheduler>>
    /\ UNCHANGED not_store_vars

DeleteNext == DeleteFileStep \/ DeleteFileAgain

SpecDelete == DeleteInit /\ [][DeleteNext]_vars

\* SpecCleanup: one run of delete_expired_files

CleanupHours == 24..26

\* The awaits of delete_file, and "none" for a call in which none fails.
DeleteFaults ==
    {"none", "find_one", "delete_one", "delete_raw", "delete_processed"}

CleanupInit ==
    /\ store \in Stores
    /\ calls = [cleanup |-> delete_expired_files_call,
                before |-> Before(store)]
    /\ now \in CleanupHours
    /\ scheduler = NewScheduler
    /\ SanIdle
    /\ IngestIdle
    /\ CliIdle
    /\ PoolIdle

CleanupFind ==
    /\ calls.cleanup.pc = "find"
    /\ \E fails \in BOOLEAN :
           calls' = [calls EXCEPT !.cleanup =
                         delete_expired_files_find(store, @, fails, now).call]
    /\ UNCHANGED <<store, now, scheduler>>
    /\ UNCHANGED not_store_vars

CleanupFor ==
    /\ calls.cleanup.pc = "for"
    /\ \E doc \in calls.cleanup.cursor : \E fault \in DeleteFaults :
           \E r \in {delete_expired_files_for(store, calls.cleanup, doc,
                                              fault)} :
               /\ store' = r.store
               /\ calls' = [calls EXCEPT !.cleanup = r.call]
    /\ UNCHANGED <<now, scheduler>>
    /\ UNCHANGED not_store_vars

CleanupEnd ==
    /\ calls.cleanup.pc = "for"
    /\ calls.cleanup.cursor = {}
    /\ calls' = [calls EXCEPT !.cleanup = delete_expired_files_end(@)]
    /\ UNCHANGED <<store, now, scheduler>>
    /\ UNCHANGED not_store_vars

CleanupNext == CleanupFind \/ CleanupFor \/ CleanupEnd

SpecCleanup == CleanupInit /\ [][CleanupNext]_vars

\* SpecRace: delete_file and two download_processed_file, interleaved

RaceInit ==
    /\ store \in {s \in Stores : s.docs # {}}
    /\ calls \in {[delete |-> delete_file_call(file_id),
                   download |-> download_processed_file_call(file_id),
                   other |-> download_processed_file_call(file_id)] :
                      file_id \in {str(d._id) : d \in store.docs}}
    /\ now = 2
    /\ scheduler = NewScheduler
    /\ SanIdle
    /\ IngestIdle
    /\ CliIdle
    /\ PoolIdle

\* download_processed_file goes on to its next await, or to its end.
DownloadStep ==
    /\ \E p \in DOMAIN calls :
           /\ calls[p].op = "download_processed_file"
           /\ ~finished(calls[p])
           /\ \E r \in {download_processed_file_step(store, calls[p])} :
                  /\ store' = r.store
                  /\ calls' = [calls EXCEPT ![p] = r.call]
    /\ UNCHANGED <<now, scheduler>>
    /\ UNCHANGED not_store_vars

RaceNext == DeleteFileStep \/ DownloadStep

SpecRace == RaceInit /\ [][RaceNext]_vars

\* SpecApp: the lifespan of the application and its scheduler

\* delete_expired_files run from c to its end, no await of it failing.
RECURSIVE delete_expired_files_run(_, _, _)
delete_expired_files_run(s, c, utcnow) ==
    IF c.pc = "returned" THEN s
    ELSE IF c.pc = "find"
    THEN delete_expired_files_run(
             s, delete_expired_files_find(s, c, FALSE, utcnow).call, utcnow)
    ELSE IF c.cursor = {}
    THEN delete_expired_files_run(s, delete_expired_files_end(c), utcnow)
    ELSE LET r == delete_expired_files_for(
                      s, c, CHOOSE d \in c.cursor : TRUE, "none")
         IN  delete_expired_files_run(r.store, r.call, utcnow)

AppInit ==
    /\ store \in Stores
    /\ calls = <<>>
    /\ now = 2
    /\ scheduler = NewScheduler
    /\ SanIdle
    /\ IngestIdle
    /\ CliIdle
    /\ PoolIdle

LifespanStartup ==
    /\ scheduler.app = "created"
    /\ scheduler' = lifespan_startup(scheduler, now)
    /\ UNCHANGED <<store, calls, now>>
    /\ UNCHANGED not_store_vars

\* An hour passes; a running scheduler runs the jobs that are due and sets
\* their next run an interval later.
Hour ==
    /\ now < MaxHours
    /\ now' = now + 1
    /\ LET due == {j \in scheduler.jobs : j.next_run_time <= now'}
       IN  IF scheduler.running /\ due # {}
           THEN /\ store' = delete_expired_files_run(
                                store, delete_expired_files_call, now')
                /\ scheduler' = [scheduler EXCEPT !.jobs =
                       {IF j \in due
                        THEN [j EXCEPT !.next_run_time = @ + j.minutes \div 60]
                        ELSE j : j \in @}]
           ELSE UNCHANGED <<store, scheduler>>
    /\ UNCHANGED calls
    /\ UNCHANGED not_store_vars

\* The application stops: what scheduler.shutdown() does with a scheduler
\* that was never started is the library's, an exception or nothing.
LifespanShutdown ==
    /\ scheduler.app = "running"
    /\ \E raises \in BOOLEAN :
           scheduler' = lifespan_shutdown(scheduler, raises)
    /\ UNCHANGED <<store, calls, now>>
    /\ UNCHANGED not_store_vars

AppNext == LifespanStartup \/ Hour \/ LifespanShutdown

SpecApp == AppInit /\ [][AppNext]_vars

-----------------------------------------------------------------------------
(* Specification of the thread pool: MaxThreads calls of _parse_csv_sync,  *)
(* each on its own content, interleaved at their accesses to the registry. *)

MaxThreads == 2

\* Contents with the comma, the semicolon and the apostrophe for dialect,
\* one no candidate can score, and the empty one.
PoolTexts == {
    <<>>,
    <<"\n">>,
    <<"a", ",", "b", "\n", "1", ",", "2">>,
    <<"a", ";", "b", "\n", "1", ";", "2">>,
    <<"'", "a", ",", "b", "'", ",", "c", "\n", "'", "1", ",", "2", "'", ",", "3">>
}

PoolInit ==
    /\ registry = builtin_dialects
    /\ threads \in [1..MaxThreads -> {thread_call(text) : text \in PoolTexts}]
    /\ SanIdle
    /\ IngestIdle
    /\ CliIdle
    /\ StoreIdle

\* A thread goes on to its next access to the registry, or to its end.
ThreadStep ==
    /\ \E i \in DOMAIN threads :
           /\ threads[i].pc \notin {"returned", "raised"}
           /\ \E r \in {thread_step(registry, threads[i])} :
                  /\ registry' = r.registry
                  /\ threads' = [threads EXCEPT ![i] = r.thread]
    /\ UNCHANGED not_pool_vars

PoolNext == ThreadStep

SpecPool == PoolInit /\ [][PoolNext]_vars

-----------------------------------------------------------------------------
(* Properties of the sanitizer *)

\* t is x without its leading and trailing whitespace.
IsTrimOf(t, x) ==
    \E i \in 1..(Len(x) + 1) : \E j \in (i - 1)..Len(x) :
        /\ t = SubSeq(x, i, j)
        /\ \A k \in 1..(i - 1) : x[k] \in Whitespace
        /\ \A k \in (j + 1)..Len(x) : x[k] \in Whitespace
        /\ t # <<>> => t[1] \notin Whitespace /\ t[Len(t)] \notin Whitespace

Slices(x) == {SubSeq(x, i, j) : i \in 1..(Len(x) + 1), j \in 0..Len(x)}

C3_PrefixKeepsInput ==
    (san_pc \in {"once", "twice"} /\ value # None) =>
        IF startswith(strip(value), FormulaPrefixes)
        THEN result = <<"'">> \o value
        ELSE result = value

\* C4: a second pass of sanitize_cell_value changes nothing.
C4_Idempotent ==
    san_pc = "twice" => again = result

\* A value that got its quote in the first pass has gone through the second.
C4_Witness ==
    /\ san_pc = "twice"
    /\ value # None
    /\ startswith(strip(value), FormulaPrefixes)
    /\ Len(result) = Len(strip(value)) + 1
    /\ again = result

-----------------------------------------------------------------------------
(* Properties of the ingestion *)

HasReturned == pc \in {"returned", "built"}
Detected == pc \in {"detected", "classified", "returned", "built"} /\ content # <<>>
Classified == pc \in {"classified", "returned", "built"} /\ content # <<>>

Range(f) == {f[i] : i \in DOMAIN f}

\* C1: in the (records, fields) that ingestion returns, empty fields means
\* empty records, and every key of every record is one of the fields.
C1_KeysWithinFields ==
    HasReturned =>
        /\ fields = <<>> => records = <<>>
        /\ \A r \in DOMAIN records : dict_keys(records[r]) \subseteq Range(fields)

\* C5: no cell of the sanitized CSV built from the ingestion result, header
\* or data, begins with one of = + - @.
C5_NoFormulaCell ==
    (pc = "built" /\ ~clean_csv.raised) =>
        \A r \in DOMAIN clean_csv.rows : \A c \in DOMAIN clean_csv.rows[r] :
            ~startswith(clean_csv.rows[r][c], FormulaPrefixes)

Scored(k) == scores[k].status = SCORED
Parsed(k) == scores[k].status # NO_ROWS
Q(k) == scores[k].consistency_score

\* Candidate k has the highest score among the scored candidates, and is
\* the earliest of those that have it.
BestScored(k) ==
    /\ Scored(k)
    /\ \A j \in 1..8 : Scored(j) =>
            /\ ~NumGt(Q(j), Q(k))
            /\ j < k => NumGt(Q(k), Q(j))

\* C6: detect falls back to the default dialect only when no candidate
\* parses the sample into at least one row; otherwise it returns the
\* candidate with the highest Q = P * T, the earliest one on equal Q.
C6_DetectChoice ==
    Detected =>
        /\ (\A k \in 1..8 : ~Scored(k)) => (\A k \in 1..8 : ~Parsed(k))
        /\ (\E k \in 1..8 : Parsed(k)) =>
                \E k \in 1..8 : BestScored(k) /\ dialect = _get_potential_dialects[k]

\* C7: detect returns a dialect whatever the candidates come to: all 8 are
\* evaluated, those whose parse fails or whose scoring raises are left out,
\* the best of the others is returned, and the default when there are none.
C7_FailuresSkipped ==
    Detected =>
        /\ Len(scores) = 8
        /\ (\A k \in 1..8 : ~Scored(k)) => dialect = excel
        /\ (\E k \in 1..8 : Scored(k)) =>
                \E k \in 1..8 : BestScored(k) /\ dialect = _get_potential_dialects[k]

\* A candidate that failed comes before the candidate that is returned.
C7_Witness ==
    /\ pc = "detected"
    /\ ~Scored(1)
    /\ Scored(2)
    /\ dialect = _get_potential_dialects[2]

RowsOf(k) ==
    Len(_parse_sample(Prefix(content, sample_size),
                      _get_potential_dialects[k].delimiter,
                      _get_potential_dialects[k].quotechar))

Sampled ==
    SelectSeq(Prefix(csv_reader(Prefix(content, 4096), dialect, FALSE).rows, 20),
              NonEmpty)

SampleError ==
    LET r == csv_reader(Prefix(content, 4096), dialect, FALSE)
    IN  r.error /\ Len(r.rows) < 20

\* C9: _is_vertical_layout returns true exactly when the sample has no
\* parse error, has a non-empty row, an average width of at most 2.5, and
\* a first-column duplication ratio strictly above 0.3.
C9_VerticalExactly ==
    Classified =>
        (is_vertical <=>
            /\ ~SampleError
            /\ Sampled # <<>>
            /\ 2 * sum_len(Sampled) <= 5 * Len(Sampled)
            /\ 10 * (Len(Sampled) - Cardinality({Sampled[i][1] : i \in DOMAIN Sampled}))
                   > 3 * Len(Sampled))

\* C10: no two entries of the returned field list are equal after
\* whitespace-trimming.
C10_FieldsUnique ==
    HasReturned =>
        \A i, j \in DOMAIN fields : i # j => strip(fields[i]) # strip(fields[j])

\* What csv.reader yields from the whole content under the detected dialect.
Read == csv_reader(content, dialect, FALSE)

\* The horizontal path was taken and the header row was read.
OnHorizontal ==
    HasReturned /\ content # <<>> /\ ~is_vertical /\ Read.rows # <<>>

\* The rows after the header that are not blank lines.
DataRows == SelectSeq(Tail(Read.rows), NonEmpty)

\* The header positions whose name is not empty.
Named(header) == {i \in DOMAIN header : strip(header[i]) # <<>>}

\* C11: on the horizontal path every data row gives a record that holds,
\* for every header position i with a non-empty name, sanitize(cell i) when
\* the row has a cell i and empty text when it has not, and no key that is
\* not a header name.
C11_PositionalCells ==
    OnHorizontal =>
        LET header == Head(Read.rows)
            data == DataRows
        IN  Named(header) # {} =>
                /\ Len(records) = Len(data)
                /\ \A k \in DOMAIN records :
                    /\ \A i \in Named(header) :
                           dict_get(records[k], strip(header[i]), None) =
                               IF i <= Len(data[k])
                               THEN sanitize_cell_value(data[k][i])
                               ELSE <<>>
                    /\ dict_keys(records[k]) \subseteq
                           {strip(header[i]) : i \in DOMAIN header}

\* C12: no returned record has the empty text as a key, and on the vertical
\* path a row whose first cell is empty after trimming adds nothing to the
\* field list either.
C12_NoEmptyKey ==
    HasReturned =>
        /\ \A r \in DOMAIN records : <<>> \notin dict_keys(records[r])
        /\ is_vertical => <<>> \notin Range(fields)

\* The vertical path was taken and every row was read.
OnVertical == HasReturned /\ content # <<>> /\ is_vertical /\ ~Read.error

\* The rows the loop of parse_vertical_csv does not pass over.
KeyRows == SelectSeq(Read.rows, NonEmpty)

\* C13: on the vertical path every value stored in a returned record is
\* sanitize(second cell) of a row that has the value's key as its trimmed
\* first cell, the empty text when that row has no second cell.
C13_VerticalSanitized ==
    OnVertical =>
        LET rows == KeyRows
        IN  \A r \in DOMAIN records : \A c \in DOMAIN records[r] :
                \E i \in DOMAIN rows :
                    /\ strip(rows[i][1]) = records[r][c][1]
                    /\ records[r][c][2] = IF Len(rows[i]) > 1
                                          THEN sanitize_cell_value(rows[i][2])
                                          ELSE <<>>

\* The keys and the values the loop of parse_vertical_csv takes from rows.
KeysOf(rows) == [i \in DOMAIN rows |-> strip(rows[i][1])]
ValsOf(rows) ==
    [i \in DOMAIN rows |-> IF Len(rows[i]) > 1 THEN strip(rows[i][2]) ELSE <<>>]

\* The rows that open a record: the first one, and every later one whose
\* key is the first field (the current record holds that key by then).
Openers(keys) == {i \in DOMAIN keys : i = 1 \/ keys[i] = keys[1]}

\* The rows from opener i up to the next opener.
Segment(keys, i) ==
    LET later == {o \in Openers(keys) : o > i}
    IN  {j \in DOMAIN keys : j >= i /\ \A o \in later : j < o}

\* The opener of the n-th record.
Opener(keys, n) ==
    LET openers == Openers(keys)
    IN  CHOOSE i \in openers : Cardinality({o \in openers : o < i}) = n - 1

\* C14: parse_vertical_csv closes the current record exactly at the rows
\* whose key is the first field and is in the current record already, and
\* appends the last current record after the loop: the records are, in
\* order, what the rows between two such rows wrote, the later value for a
\* key written twice.
C14_RecordBoundaries ==
    OnVertical =>
        LET keys == KeysOf(KeyRows)
            vals == ValsOf(KeyRows)
        IN  /\ Len(records) = Cardinality(Openers(keys))
            /\ \A n \in DOMAIN records :
                LET seg == Segment(keys, Opener(keys, n))
                IN  /\ dict_keys(records[n]) = {keys[j] : j \in seg}
                    /\ \A j \in seg :
                           (\A l \in seg : l > j => keys[l] # keys[j]) =>
                               dict_get(records[n], keys[j], None) = vals[j]

\* Two records, the last of them with a key that is not the first field.
C14_Witness ==
    /\ OnVertical
    /\ Len(records) >= 2
    /\ Cardinality(dict_keys(records[Len(records)])) >= 2

\* The first row that has the key.
FirstSeen(keys, key) ==
    CHOOSE i \in DOMAIN keys : keys[i] = key /\ \A j \in 1..(i - 1) : keys[j] # key

\* The records parse_vertical_csv has completed when it has read the
\* first p rows: all it would return for them but the current one.
CompletedAfter(rows, p) ==
    LET r == vertical_rows(SubSeq(rows, 1, p), 1, <<>>, <<>>, <<>>).records
    IN  SubSeq(r, 1, Len(r) - 1)

\* C15: the field list of parse_vertical_csv holds every key once, in the
\* order of first appearance, and a record that is completed after some
\* row is returned as it was then, whatever fields the later rows add.
C15_FieldsFirstSeenRecordsFrozen ==
    OnVertical =>
        LET rows == KeyRows
            keys == KeysOf(rows)
        IN  /\ Range(fields) = Range(keys)
            /\ \A a, b \in DOMAIN fields :
                   a < b => FirstSeen(keys, fields[a]) < FirstSeen(keys, fields[b])
            /\ \A p \in DOMAIN rows :
                   LET done == CompletedAfter(rows, p)
                   IN  /\ Len(done) <= Len(records)
                       /\ \A n \in DOMAIN done : records[n] = done[n]

\* A field that appears only after the first record is completed.
C15_Witness ==
    /\ OnVertical
    /\ Len(records) >= 2
    /\ \E f \in Range(fields) : f \notin dict_keys(records[1])

\* The header positions the horizontal path makes record keys of: those
\* with a name that is not the empty text.
Kept(header) == {i \in DOMAIN header : header[i] # <<>>}

\* The record the horizontal path makes of a data row: the header names
\* are trimmed, a cell is sanitized, a missing cell is the empty text, and
\* of the positions with the same name the last one counts.
RecordOf(header, row, rec) ==
    /\ dict_keys(rec) = {strip(header[i]) : i \in Kept(header)}
    /\ \A i \in Kept(header) :
           (\A j \in Kept(header) :
                j > i => strip(header[j]) # strip(header[i])) =>
               dict_get(rec, strip(header[i]), None) =
                   IF i <= Len(row) THEN sanitize_cell_value(row[i]) ELSE <<>>

\* C16: on the horizontal path, when csv.Error is raised at some row after
\* the header, the call returns the header as the field list and one record
\* for each data row read before the error (none when the header has no
\* name to make a key of).
C16_PartialOnError ==
    (HasReturned /\ content # <<>> /\ ~is_vertical) =>
        LET read == Read
            header == Head(read.rows)
            data == SelectSeq(Tail(read.rows), NonEmpty)
        IN  (read.rows # <<>> /\ read.error) =>
                /\ fields = header
                /\ Len(records) = IF Kept(header) = {} THEN 0 ELSE Len(data)
                /\ \A k \in DOMAIN records :
                       RecordOf(header, data[k], records[k])

\* Records are returned although the reading ended in csv.Error.
C16_Witness ==
    /\ OnHorizontal
    /\ Read.error
    /\ Len(records) >= 2

\* C17: on the vertical path, csv.Error raised at any row makes
\* parse_vertical_csv return no records and no fields, whatever it had
\* accumulated from the rows before.
C17_VerticalErrorEmpty ==
    (HasReturned /\ content # <<>> /\ is_vertical /\ Read.error) =>
        /\ records = <<>>
        /\ fields = <<>>

\* csv.Error is raised on the vertical path after rows that had completed
\* records.
C17_Witness ==
    /\ HasReturned
    /\ is_vertical
    /\ Read.error
    /\ Cardinality(Openers(KeysOf(KeyRows))) >= 2

\* The id_field argument names a field: it is given and not blank.
NonBlankId == id_field # None /\ strip(id_field) # <<>>

\* The value a record has for the trimmed id_field, the empty text when it
\* has none.
IdOf(rec) == dict_get(rec, strip(id_field), <<>>)

\* What _parse_csv_sync makes of the content.
ParsedRecords ==
    IF content = <<>> THEN <<>>
    ELSE _parse_csv_sync(content, dialect, is_vertical).records

\* C18: called with a non-blank id_field, ingestion returns at most one
\* record for each non-empty value of that field.
C18_OneRecordPerId ==
    (HasReturned /\ NonBlankId) =>
        \A i, j \in DOMAIN records :
            (i < j /\ IdOf(records[i]) # <<>>) =>
                IdOf(records[i]) # IdOf(records[j])

\* C19: called with a non-blank id_field, a returned record with a
\* non-empty identifier holds, for every other field, the last non-empty
\* value that field has among the parsed records with that identifier.
C19_LastNonEmptyWins ==
    (HasReturned /\ NonBlankId) =>
        \A n \in DOMAIN records : IdOf(records[n]) # <<>> =>
            \A p \in DOMAIN ParsedRecords :
                IdOf(ParsedRecords[p]) = IdOf(records[n]) =>
                    \A f \in dict_keys(ParsedRecords[p]) \ {strip(id_field)} :
                        (/\ dict_get(ParsedRecords[p], f, <<>>) # <<>>
                         /\ \A q \in DOMAIN ParsedRecords :
                                (q > p /\ IdOf(ParsedRecords[q]) = IdOf(records[n]))
                                    => dict_get(ParsedRecords[q], f, <<>>) = <<>>)
                        => dict_get(records[n], f, <<>>) =
                               dict_get(ParsedRecords[p], f, <<>>)

\* C20: called without an id_field, or with a blank one, ingestion returns
\* the parsed records as they are: same number, order and contents.
C20_BlankIdNoOp ==
    (HasReturned /\ ~NonBlankId) => records = ParsedRecords

\* A blank id_field, and two of the returned records are equal.
C20_Witness ==
    /\ HasReturned
    /\ id_field = <<" ">>
    /\ \E i, j \in DOMAIN records : i < j /\ records[i] = records[j]

\* C21: the ingestion raises for no content, well-formed or malformed, and
\* for the empty content it returns ([], []) without detection,
\* classification or parsing.
C21_NeverRaises ==
    /\ pc # "raised"
    /\ (HasReturned /\ content = <<>>) =>
           /\ records = <<>>
           /\ fields = <<>>
           /\ scores = <<>>
           /\ dialect = NoDialect
           /\ ~is_vertical

\* A content whose reading ends in csv.Error on the vertical path, returned.
C21_Witness ==
    /\ HasReturned
    /\ content # <<>>
    /\ is_vertical
    /\ Read.error

\* C27: on a run of parse_vertical_csv without csv.Error every returned
\* record has the first field as its first key, and there are as many
\* records as rows, among those the loop does not pass over, whose trimmed
\* key is the first field.
C27_FirstFieldLeads ==
    OnVertical =>
        LET keys == KeysOf(KeyRows)
        IN  /\ \A n \in DOMAIN records :
                   records[n] # <<>> /\ records[n][1][1] = fields[1]
            /\ Len(records) =
                   Cardinality({i \in DOMAIN keys : keys[i] = fields[1]})

\* Two records, and another key than the first field comes twice.
C27_Witness ==
    /\ OnVertical
    /\ Len(records) >= 2
    /\ LET keys == KeysOf(KeyRows)
       IN  \E i, j \in DOMAIN keys :
               i < j /\ keys[i] = keys[j] /\ keys[i] # fields[1]

\* C28: in detect every candidate whose strict parse of the sample gives
\* at least one row receives a consistency score, rows without cells
\* (blank lines) among them or not.
C28_ParsedIsScored ==
    Detected => \A k \in 1..8 : Parsed(k) => Scored(k)

\* The first p rows of the files.
RECURSIVE take_rows(_, _)
take_rows(files, p) ==
    IF files = <<>> \/ p = 0 THEN <<>>
    ELSE IF Len(Head(files)) >= p THEN <<SubSeq(Head(files), 1, p)>>
    ELSE <<Head(files)>> \o take_rows(Tail(files), p - Len(Head(files)))

RECURSIVE count_rows(_)
count_rows(files) ==
    IF files = <<>> THEN 0 ELSE Len(Head(files)) + count_rows(Tail(files))

\* C26: every record read_records returns has the keys of the returned
\* field list, in its order; a record that was completed after the first p
\* rows has the values it had then, and the empty text for the fields
\* found later.
C26_RecordsAligned ==
    read_out.returned =>
        /\ \A n \in DOMAIN read_out.records :
               [c \in DOMAIN read_out.records[n] |-> read_out.records[n][c][1]]
                   = read_out.fields
        /\ \A p \in 1..count_rows(input_files) :
               LET then == read_records(take_rows(input_files, p))
               IN  \A n \in 1..(Len(then.records) - 1) :
                       /\ n <= Len(read_out.records)
                       /\ \A f \in Range(read_out.fields) :
                              dict_get(read_out.records[n], f, None) =
                                  dict_get(then.records[n], f, <<>>)

\* A field is found after the first record was completed.
C26_Witness ==
    /\ read_out.returned
    /\ Len(read_out.records) >= 2
    /\ Len(read_out.fields) >= 2
    /\ read_out.records[1][Len(read_out.fields)][2] = <<>>
    /\ read_out.records[2][Len(read_out.fields)][2] # <<>>

-----------------------------------------------------------------------------
(* Properties of the store *)

\* The documents of s with the id of the text file_id.
DocsOf(s, file_id) == {d \in s.docs : d._id = <<"ObjectId", file_id[2]>>}

\* The files of the bucket of s that the documents ds name.
BlobsOf(s, ds) ==
    {f \in s.bucket : \E d \in ds : f._id \in {d.raw_fs_id, d.processed_fs_id}}

\* C24: delete_file(id) of an id with no metadata document returns False
\* and leaves every document and blob in place; of an id with a document
\* it returns True and has deleted that document, its raw blob and its
\* processed blob, and nothing else; a second delete_file of the same id
\* returns False.
C24_DeleteFile ==
    "first" \in DOMAIN calls =>
        LET c == calls.first
            was == calls.before.store
            had == DocsOf(was, c.file_id)
        IN  /\ finished(c) =>
                /\ c.pc = "returned"
                /\ c.val = (had # {})
                /\ store.docs = was.docs \ had
                /\ store.bucket = was.bucket \ BlobsOf(was, had)
            /\ finished(calls.second) =>
                /\ calls.second.pc = "returned"
                /\ calls.second.val = FALSE

\* Both calls have ended, the first one on a processed file.
C24_Witness ==
    /\ "first" \in DOMAIN calls
    /\ finished(calls.second)
    /\ calls.first.val
    /\ \E d \in DocsOf(calls.before.store, calls.first.file_id) :
           /\ d.processed_fs_id # None
           /\ Cardinality(BlobsOf(calls.before.store, {d})) = 2
    /\ store.docs # {}

\* The documents with the id the save_upload call c was given for its file.
UploadDocs(c) == {d \in store.docs : d._id = c.file_id}

\* C23: once a save_upload call that created its metadata document has
\* ended, the status of the document is "processed", with the fields and
\* the records_count the call returned, when it returned, and "error" when
\* it raised.
C23_StatusFollowsOutcome ==
    "upload" \in DOMAIN calls =>
        LET c == calls.upload
        IN  finished(c) => \A d \in UploadDocs(c) :
                /\ c.pc = "returned" =>
                       /\ d.status = "processed"
                       /\ d.fields = c.val.fields
                       /\ d.records_count = c.val.records_count
                /\ c.pc = "raised" => d.status = "error"

\* C23, amended: the same, except that the status of a call that raised is
\* "error" when the handler's own update_file_status went through and is
\* still "pending" when that update raised in its turn.
C23_StatusUnlessHandlerFails ==
    "upload" \in DOMAIN calls =>
        LET c == calls.upload
        IN  finished(c) => \A d \in UploadDocs(c) :
                /\ c.pc = "returned" =>
                       /\ d.status = "processed"
                       /\ d.fields = c.val.fields
                       /\ d.records_count = c.val.records_count
                /\ c.pc = "raised" =>
                       d.status = IF c.handled THEN "error" ELSE "pending"

\* A call that raised a ValueError after its document was created, and
\* whose handler set the status.
C23_Witness ==
    /\ "upload" \in DOMAIN calls
    /\ calls.upload.pc = "raised"
    /\ calls.upload.handled
    /\ calls.upload.error = "ValueError"
    /\ \E d \in UploadDocs(calls.upload) : d.status = "error"

\* The documents of s created before the hour that lies the retention
\* period before this one.
Expired(s) == {d \in s.docs : d.created_at + 24 < now}

\* C25: a run of delete_expired_files calls delete_file for files created
\* before now - 24 hours only and never raises; when it returns having had
\* its query answered, it has called delete_file once for every such file,
\* the files whose delete_file returned are gone whatever became of the
\* other calls, and the files created at or after the cutoff are in place
\* with their blobs.
C25_OneRun ==
    "cleanup" \in DOMAIN calls =>
        LET c == calls.cleanup
            was == calls.before.store
            requested == {c.log[i].doc : i \in DOMAIN c.log}
            kept == was.docs \ Expired(was)
        IN  /\ c.pc \in {"find", "for", "returned"}
            /\ requested \subseteq Expired(was)
            /\ Cardinality(requested) = Len(c.log)
            /\ kept \subseteq store.docs
            /\ BlobsOf(was, kept) \subseteq store.bucket
            /\ \A i \in DOMAIN c.log :
                   ~c.log[i].raised =>
                       /\ c.log[i].doc \notin store.docs
                       /\ BlobsOf(was, {c.log[i].doc}) \cap store.bucket = {}
            /\ (c.pc = "returned"
                   /\ c.logged # "Error during scheduled cleanup") =>
                   /\ requested = Expired(was)
                   /\ c.deleted_count =
                          Cardinality({i \in DOMAIN c.log : ~c.log[i].raised})

\* A run over two expired files in which the first delete_file raised and
\* the second returned.
C25_Witness ==
    /\ "cleanup" \in DOMAIN calls
    /\ calls.cleanup.pc = "returned"
    /\ Len(calls.cleanup.log) = 2
    /\ calls.cleanup.log[1].raised
    /\ ~calls.cleanup.log[2].raised

\* The processed files of the bucket: those named "processed_...".
ProcessedBlobs ==
    {f \in store.bucket :
         /\ Len(f.filename) >= Len(processed_)
         /\ SubSeq(f.filename, 1, Len(processed_)) = processed_}

\* C29: with delete_file and two download_processed_file calls of the same
\* id interleaved, every processed blob in the bucket is the
\* processed_fs_id of a metadata document (or is on its way: the
\* delete_file in progress found it in the document it deleted, or a
\* download has saved it and has yet to update the document), and once
\* delete_file has returned True the bucket holds no blob of that file:
\* neither its raw blob nor a processed blob made from it.
C29_NoOrphanBlob ==
    "download" \in DOMAIN calls =>
        /\ \A f \in ProcessedBlobs :
               \/ \E d \in store.docs : d.processed_fs_id = f._id
               \/ /\ ~finished(calls.delete)
                  /\ \E d \in calls.delete.doc : d.processed_fs_id = f._id
               \/ \E p \in {"download", "other"} :
                      /\ calls[p].pc = "update_file_status"
                      /\ calls[p].processed_file_id = f._id
        /\ (calls.delete.pc = "returned" /\ calls.delete.val) =>
               \A f \in store.bucket :
                   /\ f._id # ObjectId(calls.delete.file_id)
                   /\ \A p \in {"download", "other"} :
                          f._id # calls[p].processed_file_id

\* C30: once the application has started, the job lgpd_cleanup_job that
\* runs delete_expired_files every 60 minutes is registered and the
\* scheduler is running.
C30_CleanupScheduled ==
    scheduler.app = "running" =>
        /\ scheduler.running
        /\ \E j \in scheduler.jobs :
               /\ j.id = "lgpd_cleanup_job"
               /\ j.func = "delete_expired_files"
               /\ j.minutes = 60

-----------------------------------------------------------------------------
(* Properties of the thread pool *)

\* What _parse_csv_sync comes to on text when it runs alone.
Alone(text) ==
    [dialect |-> IF text = <<>> THEN NoDialect
                 ELSE _detect_dialect(detect_outcomes(text)),
     result |-> awaited_process_csv_content(text, None)]

\* The same, for each content of the pool.
AloneOf == [text \in PoolTexts |-> Alone(text)]

\* C22: whatever the interleaving of the calls, each one has the dialect
\* it detects when it runs alone from the moment it has got it from the
\* registry, never raises, and returns the records and fields it returns
\* when it runs alone; so do two calls on the same content, one after or
\* amid the other.
C22_NoInterference ==
    \A i \in DOMAIN threads :
        LET t == threads[i]
            alone == AloneOf[t.content]
        IN  /\ t.pc # "raised"
            /\ t.pc \in {"parse", "returned"} => t.dialect = alone.dialect
            /\ t.pc = "returned" =>
                   /\ t.records = alone.result.records
                   /\ t.fields = alone.result.fields

\* Two calls amid each other: both have registered and got their dialect,
\* different ones, and neither has returned.
C22_Witness ==
    \E i, j \in DOMAIN threads :
        /\ threads[i].pc = "parse"
        /\ threads[j].pc = "parse"
        /\ threads[i].dialect # threads[j].dialect
        /\ threads[i].dialect # excel
        /\ threads[j].dialect # excel

====
